---- MODULE Spec2Model ----
(***************************************************************************)
(* A model of the analysis engine of the MCR humanizer: the profile        *)
(* service (server/services/profileService.ts), the cache service          *)
(* (server/services/cacheService.ts), the queue service                    *)
(* (server/services/queueService.ts, kept as src/unnamed/part_001) and     *)
(* the pattern service (server/services/patternService.ts, the second      *)
(* half of src/unnamed/part_002), the image analysis service               *)
(* (server/services/imageAnalysisService.ts), the batch route of           *)
(* server/routes-advanced.ts and the FileUpload component of the client.   *)
(*                                                                         *)
(* Each service has its own variables, its own initial predicate and its   *)
(* own next-state relation; a specification of one service keeps the       *)
(* other services' variables at their initial value.                       *)
(***************************************************************************)
EXTENDS Integers, Sequences, FiniteSets, TLC

VARIABLES
    \* profile service: the humanization_profiles table and the calls in flight
    profiles, nextProfileId, calls, returned,
    \* cache service: the fields of CacheService and the redis backend
    redis, enabled, backend, store, cacheResult,
    \* queue service: the three BullMQ queues, the workers and the sink
    jobs, nextJobId, paused, workers, broadcastCallback, sink,
    \* pattern service: the files, the patterns table, the first mining call
    \* and the same request sent once more
    files, patterns, mined, remined,
    \* shared schema: a call of a schema function and what it returned
    request, response,
    \* transition analysis: the table being built, the analysis run and the
    \* prediction made from its table
    transitions, analysis, prediction,
    \* image analysis service: the image_analysis table, the last call of
    \* analyzeImage and the last call of generateMCRFromImage
    analyses, imageCall, generated,
    \* FileUpload component: its state (selectedFile: whether a file is
    \* chosen), the image list of its query, the
    \* path-save and upload requests in flight, and what is known of the
    \* selected image (whether it had a drawn path when it was selected, the
    \* images whose path save succeeded)
    selectedImageId, selectedFile, showPathDrawer, pathCompleted, isUploading, images,
    savePathMutation, uploadMutation, selectedHadPath, savedPaths,
    \* pattern usage: the pattern_usage table and the calls made so far
    patternUsage, usageCalls,
    \* batch route: the mcr_files table, the payloads handed to the
    \* processing queue and the last request
    mcrFiles, enqueued, batchRequest,
    \* getJobStatus: the last call and what it returned
    jobStatus

profileVars == <<profiles, nextProfileId, calls, returned>>
cacheVars == <<redis, enabled, backend, store, cacheResult>>
queueVars == <<jobs, nextJobId, paused, workers, broadcastCallback, sink>>
mineVars == <<files, patterns, mined, remined>>
schemaVars == <<request, response>>
transitionVars == <<transitions, analysis, prediction>>
imageVars == <<analyses, imageCall, generated>>
uiVars == <<selectedImageId, selectedFile, showPathDrawer, pathCompleted, isUploading, images, savePathMutation, uploadMutation, selectedHadPath, savedPaths>>
usageVars == <<patternUsage, usageCalls>>
batchVars == <<mcrFiles, enqueued, batchRequest>>
statusVars == <<jobStatus>>
serverVars == <<profileVars, cacheVars, queueVars, mineVars, schemaVars, transitionVars>>
vars == <<serverVars, imageVars, uiVars, usageVars, batchVars, statusVars>>

\* The value of an optional field that is not given (undefined), of a handle
\* that is null, of a slot that holds nothing.
Absent == "absent"
Null == "null"
None == "none"

\* A real number as a fraction; den = 0 with num > 0 is Infinity.
Ratio(num, den) == [num |-> num, den |-> den]
LessEq(a, b) == a.num * b.den <= b.num * a.den

(***************************************************************************)
(* PROFILE SERVICE                                                         *)
(***************************************************************************)

\* Bounds of the profile model.
MaxProfiles == 3
MaxCalls == 2

ProfileNames == {"Novice User", "Average User"}
ProfileIds == 1..MaxProfiles
CallSlots == 1..MaxCalls

\* The rows whose is_default column is true.
DefaultIds == {i \in DOMAIN profiles : profiles[i].isDefault = TRUE}

\* name is declared unique: a statement that would store a second row with
\* the same name is rejected by the database.
NameTaken(name, except) ==
    \E i \in DOMAIN profiles : i # except /\ profiles[i].name = name

\* update(humanizationProfiles).set({isDefault: false}).where(isDefault = true)
UnsetDefaultRows ==
    [i \in DOMAIN profiles |-> [profiles[i] EXCEPT !.isDefault = FALSE]]

\* The columns of a profile that have a range: typingSpeed, mouseAccuracy
\* and, inside settings, delayVariation, typingErrors, hesitationPauses and
\* timeExtensionFactor.
ProfileBody(typingSpeed, mouseAccuracy, delayVariation, typingErrors, hesitationPauses, timeExtensionFactor) ==
    [typingSpeed |-> typingSpeed, mouseAccuracy |-> mouseAccuracy,
     settings |-> [delayVariation |-> delayVariation,
                   typingErrors |-> typingErrors,
                   hesitationPauses |-> hesitationPauses,
                   timeExtensionFactor |-> timeExtensionFactor]]

\* The 'Average User' profile of createDefaultProfiles (timeExtensionFactor
\* at the default of the settings schema).
AverageBody == ProfileBody("medium", Ratio(8, 10), 25, 3, 15, 1)

\* A request body with every value in range, and six with one value out of
\* its range.
RequestBodies ==
    {AverageBody,
     ProfileBody("turbo", Ratio(8, 10), 25, 3, 15, 1),
     ProfileBody("medium", Ratio(15, 10), 25, 3, 15, 1),
     ProfileBody("medium", Ratio(8, 10), 101, 3, 15, 1),
     ProfileBody("medium", Ratio(8, 10), 25, 11, 15, 1),
     ProfileBody("medium", Ratio(8, 10), 25, 3, 51, 1),
     ProfileBody("medium", Ratio(8, 10), 25, 3, 15, 6)}

\* An update that gives none of these columns.
NoBody == ProfileBody(Absent, Ratio(0, 0), 0, 0, 0, 0)

\* A free call slot, and the value of `returned` while a call is running.
NoCall ==
    [op |-> None, id |-> 0, name |-> Absent, isDefault |-> Absent, pc |-> None,
     body |-> NoBody]
NoReturn == [op |-> None, id |-> 0, isDefault |-> Absent, outcome |-> None]

ProfileIdle ==
    /\ profiles = <<>>
    /\ nextProfileId = 1
    /\ calls = [c \in CallSlots |-> NoCall]
    /\ returned = NoReturn

ProfileInit == ProfileIdle

\* createProfile(profile) is called: `if (profile.isDefault)` decides whether
\* the unset statement runs first.
CreateCalled(c, bodies) ==
    /\ calls[c].op = None
    /\ nextProfileId + Cardinality({d \in CallSlots : calls[d].op = "createProfile"})
          <= MaxProfiles
    /\ \E name \in ProfileNames, isDefault \in {"true", "false", Absent},
          body \in bodies :
          calls' = [calls EXCEPT ![c] =
                      [op |-> "createProfile", id |-> 0, name |-> name,
                       isDefault |-> isDefault,
                       pc |-> IF isDefault = "true" THEN "unset" ELSE "write",
                       body |-> body]]
    /\ returned' = NoReturn
    /\ UNCHANGED <<profiles, nextProfileId>>

\* createProfile called by the server itself, with values in range.
StartCreate(c) ==
    /\ CreateCalled(c, {AverageBody})
    /\ UNCHANGED <<cacheVars, queueVars, mineVars, schemaVars, transitionVars, imageVars, uiVars, usageVars, batchVars, statusVars>>

\* updateProfile(id, updates) is called: `if (updates.isDefault)`.
UpdateCalled(c, bodies) ==
    /\ calls[c].op = None
    /\ \E id \in ProfileIds, name \in ProfileNames \cup {Absent},
          isDefault \in {"true", "false", Absent}, body \in bodies :
          calls' = [calls EXCEPT ![c] =
                      [op |-> "updateProfile", id |-> id, name |-> name,
                       isDefault |-> isDefault,
                       pc |-> IF isDefault = "true" THEN "unset" ELSE "write",
                       body |-> body]]
    /\ returned' = NoReturn
    /\ UNCHANGED <<profiles, nextProfileId>>

\* updateProfile called with a name or the default flag only.
StartUpdate(c) ==
    /\ UpdateCalled(c, {NoBody})
    /\ UNCHANGED <<cacheVars, queueVars, mineVars, schemaVars, transitionVars, imageVars, uiVars, usageVars, batchVars, statusVars>>

\* deleteProfile(id) is called.
StartDelete(c) ==
    /\ calls[c].op = None
    /\ \E id \in ProfileIds :
          calls' = [calls EXCEPT ![c] =
                      [op |-> "deleteProfile", id |-> id, name |-> Absent,
                       isDefault |-> Absent, pc |-> "write", body |-> NoBody]]
    /\ returned' = NoReturn
    /\ UNCHANGED <<profiles, nextProfileId>>
    /\ UNCHANGED <<cacheVars, queueVars, mineVars, schemaVars, transitionVars, imageVars, uiVars, usageVars, batchVars, statusVars>>

\* The first statement of createProfile and updateProfile with isDefault set.
UnsetDefaults(c) ==
    /\ calls[c].pc = "unset"
    /\ profiles' = UnsetDefaultRows
    /\ calls' = [calls EXCEPT ![c].pc = "write"]
    /\ UNCHANGED <<nextProfileId, returned>>
    /\ UNCHANGED <<cacheVars, queueVars, mineVars, schemaVars, transitionVars, imageVars, uiVars, usageVars, batchVars, statusVars>>

Return(c, outcome) ==
    /\ returned' = [op |-> calls[c].op, id |-> calls[c].id,
                    isDefault |-> calls[c].isDefault, outcome |-> outcome]
    /\ calls' = [calls EXCEPT ![c] = NoCall]

\* insert(humanizationProfiles).values(profile).returning(): rejected when the
\* name is taken, else a row with a fresh id; is_default defaults to false.
InsertProfile(c) ==
    /\ calls[c].op = "createProfile"
    /\ calls[c].pc = "write"
    /\ IF NameTaken(calls[c].name, 0)
       THEN /\ Return(c, "rejected")
            /\ UNCHANGED <<profiles, nextProfileId>>
       ELSE /\ nextProfileId <= MaxProfiles
            /\ profiles' = profiles @@
                 (nextProfileId :>
                    [name |-> calls[c].name,
                     isDefault |-> (calls[c].isDefault = "true"),
                     body |-> calls[c].body])
            /\ nextProfileId' = nextProfileId + 1
            /\ Return(c, "created")
    /\ UNCHANGED <<cacheVars, queueVars, mineVars, schemaVars, transitionVars, imageVars, uiVars, usageVars, batchVars, statusVars>>

\* update(humanizationProfiles).set({...updates}).where(id = id).returning():
\* no row matches: null; the new name is taken by another row: rejected.
UpdateProfileRow(c) ==
    /\ calls[c].op = "updateProfile"
    /\ calls[c].pc = "write"
    /\ UNCHANGED nextProfileId
    /\ LET id == calls[c].id
           u == calls[c]
       IN  IF id \notin DOMAIN profiles
           THEN /\ Return(c, "null")
                /\ UNCHANGED profiles
           ELSE IF u.name # Absent /\ NameTaken(u.name, id)
           THEN /\ Return(c, "rejected")
                /\ UNCHANGED profiles
           ELSE /\ profiles' = [profiles EXCEPT ![id] =
                      [name |-> IF u.name = Absent THEN @.name ELSE u.name,
                       isDefault |-> IF u.isDefault = Absent THEN @.isDefault
                                     ELSE (u.isDefault = "true"),
                       body |-> IF u.body = NoBody THEN @.body ELSE u.body]]
                /\ Return(c, "updated")
    /\ UNCHANGED <<cacheVars, queueVars, mineVars, schemaVars, transitionVars, imageVars, uiVars, usageVars, batchVars, statusVars>>

\* delete(humanizationProfiles).where(id = id); rowCount > 0.
DeleteProfileRow(c) ==
    /\ calls[c].op = "deleteProfile"
    /\ calls[c].pc = "write"
    /\ UNCHANGED nextProfileId
    /\ LET id == calls[c].id
       IN  /\ profiles' = [i \in DOMAIN profiles \ {id} |-> profiles[i]]
           /\ Return(c, IF id \in DOMAIN profiles THEN "true" ELSE "false")
    /\ UNCHANGED <<cacheVars, queueVars, mineVars, schemaVars, transitionVars, imageVars, uiVars, usageVars, batchVars, statusVars>>

ProfileStep(c) ==
    \/ StartCreate(c)
    \/ StartUpdate(c)
    \/ StartDelete(c)
    \/ UnsetDefaults(c)
    \/ InsertProfile(c)
    \/ UpdateProfileRow(c)
    \/ DeleteProfileRow(c)

\* POST /api/profiles: profileService.createProfile(req.body)
PostProfile(c) ==
    /\ CreateCalled(c, RequestBodies)
    /\ UNCHANGED <<cacheVars, queueVars, mineVars, schemaVars, transitionVars, imageVars, uiVars, usageVars, batchVars, statusVars>>

\* PUT /api/profiles/:id: profileService.updateProfile(req.params.id, req.body)
PutProfile(c) ==
    /\ UpdateCalled(c, RequestBodies \cup {NoBody})
    /\ UNCHANGED <<cacheVars, queueVars, mineVars, schemaVars, transitionVars, imageVars, uiVars, usageVars, batchVars, statusVars>>

\* The profile endpoints and the statements of the calls they make.
ProfileEndpointStep(c) ==
    \/ PostProfile(c)
    \/ PutProfile(c)
    \/ UnsetDefaults(c)
    \/ InsertProfile(c)
    \/ UpdateProfileRow(c)

(***************************************************************************)
(* CACHE SERVICE                                                           *)
(***************************************************************************)

\* Bound of the cache model: the highest usage tally the model follows.
MaxUsage == 2

FileHashes == {1, 2}
ImageIds == {"img1"}
PatternIds == {"p1"}
CacheValues == {"v1", "v2"}

\* fileHashes.sort(): the hashes in ascending order.
RECURSIVE SortedSeq(_)
SortedSeq(S) ==
    IF S = {} THEN <<>>
    ELSE LET m == CHOOSE x \in S : \A y \in S : x <= y
         IN  <<m>> \o SortedSeq(S \ {m})

RECURSIVE SeqToSet(_)
SeqToSet(q) == IF q = <<>> THEN {} ELSE {Head(q)} \cup SeqToSet(Tail(q))

\* The lists of file hashes a caller may pass, in any order.
HashLists == {<<1, 2>>, <<2, 1>>}

\* `mcr:commands:${fileHash}`, `mcr:patterns:${fileHashes.sort().join(':')}`,
\* `image:analysis:${imageId}`; the tally under `pattern:usage:${patternId}`
\* is store.usage[patternId].
CommandsKey(fileHash) == <<"mcr", "commands", <<fileHash>>, "">>
PatternsKey(fileHashes) == <<"mcr", "patterns", SortedSeq(SeqToSet(fileHashes)), "">>
ImageKey(imageId) == <<"image", "analysis", <<>>, imageId>>

CacheKeys ==
    {CommandsKey(h) : h \in FileHashes}
      \cup {PatternsKey(l) : l \in HashLists}
      \cup {ImageKey(i) : i \in ImageIds}

\* The keys the glob `mcr:*:${fileHash}*` matches.
MatchingKeys(fileHash) ==
    {k \in CacheKeys : k[1] = "mcr" /\ store.data[k] # Null
                       /\ fileHash \in SeqToSet(k[3])}

EmptyStore ==
    [data |-> [k \in CacheKeys |-> Null], usage |-> [p \in PatternIds |-> 0]]

\* The last call of a method: the state of the service when it was made (was
\* the handle null, was the service disabled, was the backend down), what it
\* returned, and whether it changed what the backend stores.
NoCacheResult ==
    [op |-> None, noHandle |-> FALSE, disabled |-> FALSE, down |-> FALSE,
     raised |-> FALSE, value |-> Null, count |-> 0, changed |-> FALSE]

CacheIdle ==
    /\ redis = "connecting"
    /\ enabled = FALSE
    /\ backend = "up"
    /\ store = EmptyStore
    /\ cacheResult = NoCacheResult

\* The constructor: `new Redis({lazyConnect: true, ...})` and connect() pending,
\* or the catch branch with the handle set to null.
CacheInit ==
    /\ redis \in {"connecting", Null}
    /\ enabled = FALSE
    /\ backend \in {"up", "down"}
    /\ store = EmptyStore
    /\ cacheResult = NoCacheResult

\* What a call of a method returns to its caller: a value (Null is a miss, for
\* a count 0 is) or an exception.
Returns(value, count) == [raised |-> FALSE, value |-> value, count |-> count]
Raises == [raised |-> TRUE, value |-> Null, count |-> 0]

\* `if (!this.enabled || !this.redis) return ...`
Disabled == ~enabled \/ redis = Null

\* A command sent to redis: it is answered while the backend is up and
\* rejects otherwise (maxRetriesPerRequest: 1).
BackendCall(answer) == IF backend = "up" THEN answer ELSE Raises

\* A member access on this.redis: a TypeError when the handle is null.
Deref(answer) == IF redis = Null THEN Raises ELSE answer

\* try { ... } catch (error) { return fallback }
CatchRethrows(r, fallback) == r
Catch(r, fallback) == IF r.raised THEN fallback ELSE r

\* The guard and the try/catch around one backend call.
Guarded(answer, fallback) ==
    IF Disabled THEN fallback ELSE Catch(BackendCall(answer), fallback)

\* `cached ? JSON.parse(cached) : null`
Parsed(cached) == Returns(cached, 0)

\* A method returns r to its caller and leaves the backend holding newStore.
Finish(op, r, newStore) ==
    /\ store' = newStore
    /\ cacheResult' = [op |-> op, noHandle |-> (redis = Null),
                       disabled |-> Disabled, down |-> (backend = "down"),
                       raised |-> r.raised, value |-> r.value, count |-> r.count,
                       changed |-> (newStore # store)]
    /\ UNCHANGED <<redis, enabled, backend>>
    /\ UNCHANGED <<profileVars, queueVars, mineVars, schemaVars, transitionVars, imageVars, uiVars, usageVars, batchVars, statusVars>>

SetEx(op, key, value) ==
    LET r == Guarded(Returns("stored", 0), Returns("void", 0))
    IN  Finish(op, r,
               IF r.value = "stored"
               THEN [store EXCEPT !.data[key] = value] ELSE store)

Get(op, key) == Finish(op, Guarded(Parsed(store.data[key]), Returns(Null, 0)), store)

cacheCommands ==
    \E h \in FileHashes, v \in CacheValues : SetEx("cacheCommands", CommandsKey(h), v)

getCachedCommands ==
    \E h \in FileHashes : Get("getCachedCommands", CommandsKey(h))

cachePatternAnalysis ==
    \E l \in HashLists, v \in CacheValues :
       SetEx("cachePatternAnalysis", PatternsKey(l), v)

getCachedPatternAnalysis ==
    \E l \in HashLists : Get("getCachedPatternAnalysis", PatternsKey(l))

cacheImageAnalysis ==
    \E i \in ImageIds, v \in CacheValues :
       SetEx("cacheImageAnalysis", ImageKey(i), v)

getCachedImageAnalysis ==
    \E i \in ImageIds : Get("getCachedImageAnalysis", ImageKey(i))

\* `return await this.redis.incr(key)`, 0 when disabled or failing.
incrementPatternUsage ==
    \E p \in PatternIds :
       /\ store.usage[p] < MaxUsage
       /\ LET r == Guarded(Returns("stored", store.usage[p] + 1), Returns(Null, 0))
          IN  Finish("incrementPatternUsage", r,
                     IF r.value = "stored"
                     THEN [store EXCEPT !.usage[p] = @ + 1] ELSE store)

\* `count ? parseInt(count) : 0`
getPatternUsageCount ==
    \E p \in PatternIds :
       Finish("getPatternUsageCount",
              Guarded(Returns(IF store.usage[p] = 0 THEN Null ELSE "count",
                              store.usage[p]),
                      Returns(Null, 0)),
              store)

\* keys(pattern), then del(...keys) when there are any: neither guarded nor
\* inside a try.
invalidateFileCache ==
    \E h \in FileHashes :
       LET r == Deref(BackendCall(Returns("void", 0)))
       IN  Finish("invalidateFileCache", r,
                  IF r.raised THEN store
                  ELSE [store EXCEPT !.data =
                          [k \in CacheKeys |->
                             IF k \in MatchingKeys(h) THEN Null ELSE @[k]]])

\* flushdb(): neither guarded nor inside a try.
clearAllCache ==
    LET r == Deref(BackendCall(Returns("void", 0)))
    IN  Finish("clearAllCache", r, IF r.raised THEN store ELSE EmptyStore)

\* redis.on('connect'): the connection is established (the first time, or
\* again after an error).
RedisConnect ==
    /\ redis # Null
    /\ backend = "up"
    /\ ~enabled
    /\ redis' = "connected"
    /\ enabled' = TRUE
    /\ UNCHANGED <<backend, store, cacheResult>>
    /\ UNCHANGED <<profileVars, queueVars, mineVars, schemaVars, transitionVars, imageVars, uiVars, usageVars, batchVars, statusVars>>

\* redis.on('error')
RedisError ==
    /\ redis # Null
    /\ backend = "down"
    /\ enabled
    /\ enabled' = FALSE
    /\ UNCHANGED <<redis, backend, store, cacheResult>>
    /\ UNCHANGED <<profileVars, queueVars, mineVars, schemaVars, transitionVars, imageVars, uiVars, usageVars, batchVars, statusVars>>

\* redis.connect().catch(...): the first connection fails.
ConnectRejected ==
    /\ redis = "connecting"
    /\ backend = "down"
    /\ enabled' = FALSE
    /\ redis' = Null
    /\ UNCHANGED <<backend, store, cacheResult>>
    /\ UNCHANGED <<profileVars, queueVars, mineVars, schemaVars, transitionVars, imageVars, uiVars, usageVars, batchVars, statusVars>>

\* setex(key, this.defaultTTL, ...): an entry lives for its TTL and is gone then.
Expire ==
    /\ \E k \in CacheKeys :
          /\ store.data[k] # Null
          /\ store' = [store EXCEPT !.data[k] = Null]
    /\ UNCHANGED <<redis, enabled, backend, cacheResult>>
    /\ UNCHANGED <<profileVars, queueVars, mineVars, schemaVars, transitionVars, imageVars, uiVars, usageVars, batchVars, statusVars>>

\* The redis server stops or starts; a restart loses nothing that was stored.
BackendChanges ==
    /\ backend' = IF backend = "up" THEN "down" ELSE "up"
    /\ UNCHANGED <<redis, enabled, store, cacheResult>>
    /\ UNCHANGED <<profileVars, queueVars, mineVars, schemaVars, transitionVars, imageVars, uiVars, usageVars, batchVars, statusVars>>

CacheNext ==
    \/ cacheCommands
    \/ getCachedCommands
    \/ cachePatternAnalysis
    \/ getCachedPatternAnalysis
    \/ cacheImageAnalysis
    \/ getCachedImageAnalysis
    \/ incrementPatternUsage
    \/ getPatternUsageCount
    \/ invalidateFileCache
    \/ clearAllCache
    \/ RedisConnect
    \/ RedisError
    \/ ConnectRejected
    \/ Expire
    \/ BackendChanges

(***************************************************************************)
(* QUEUE SERVICE                                                           *)
(***************************************************************************)

\* Bound of the queue model: the jobs added to each queue.
MaxJobs == 2

Queues == {"mcr-processing", "image-analysis", "pattern-mining"}
JobIds == 1..MaxJobs

\* addProcessingJob(file, priority = 10): the callers pass no priority.
Priorities == {10}

\* The options of the three add calls: attempts and backoff.
ProcessingAttempts == 3
ImageAttempts == 2
MiningAttempts == 2
Attempts(q) ==
    CASE q = "mcr-processing" -> ProcessingAttempts
      [] q = "image-analysis" -> ImageAttempts
      [] q = "pattern-mining" -> MiningAttempts

\* backoff {type: 'exponential', delay: 2000}, {type: 'fixed', delay: 3000},
\* none: the delay before the retry that follows failed attempt number n.
RECURSIVE Pow2(_)
Pow2(n) == IF n = 0 THEN 1 ELSE 2 * Pow2(n - 1)
BackoffDelay(q, n) ==
    CASE q = "mcr-processing" -> 2000 * Pow2(n - 1)
      [] q = "image-analysis" -> 3000
      [] q = "pattern-mining" -> 0

\* new Worker('mcr-processing', ..., {concurrency: 3})
Concurrency == 3

QueueIdle ==
    /\ jobs = [q \in Queues |-> <<>>]
    /\ nextJobId = [q \in Queues |-> 1]
    /\ paused = [q \in Queues |-> FALSE]
    /\ workers = [q \in Queues |-> 0]
    /\ broadcastCallback = Null
    /\ sink = {}

\* The constructor makes the three queues and no worker.
QueueInit == QueueIdle

JobsIn(q, state) == {i \in DOMAIN jobs[q] : jobs[q][i].state = state}

\* setBroadcastCallback(callback)
setBroadcastCallback ==
    /\ broadcastCallback' = "callback"
    /\ UNCHANGED <<jobs, nextJobId, paused, workers, sink>>
    /\ UNCHANGED <<profileVars, cacheVars, mineVars, schemaVars, transitionVars, imageVars, uiVars, usageVars, batchVars, statusVars>>

\* queue.add(name, data, opts): the job gets the queue's next id and waits.
Add(op, q, priority) ==
    /\ nextJobId[q] <= MaxJobs
    /\ jobs' = [jobs EXCEPT ![q] = @ @@
                  (nextJobId[q] :>
                     [state |-> "waiting", attemptsMade |-> 0,
                      priority |-> priority, attempts |-> Attempts(q),
                      delay |-> 0])]
    /\ nextJobId' = [nextJobId EXCEPT ![q] = @ + 1]
    /\ UNCHANGED <<paused, workers, broadcastCallback, sink>>
    /\ UNCHANGED <<profileVars, cacheVars, mineVars, schemaVars, transitionVars, imageVars, uiVars, usageVars, batchVars, statusVars>>

addProcessingJob ==
    \E priority \in Priorities : Add("addProcessingJob", "mcr-processing", priority)

addImageAnalysisJob == Add("addImageAnalysisJob", "image-analysis", 0)

addPatternMiningJob == Add("addPatternMiningJob", "pattern-mining", 0)

\* startWorkers(), called once as the server starts: one Worker, on
\* 'mcr-processing'; imageWorker and patternWorker are never assigned.
StartedWorkers == [workers EXCEPT !["mcr-processing"] = @ + 1]

startWorkers ==
    /\ workers["mcr-processing"] = 0
    /\ workers' = StartedWorkers
    /\ UNCHANGED <<jobs, nextJobId, paused, broadcastCallback, sink>>
    /\ UNCHANGED <<profileVars, cacheVars, mineVars, schemaVars, transitionVars, imageVars, uiVars, usageVars, batchVars, statusVars>>

\* The job a worker of q takes next: the waiting job of the lowest priority
\* value, the oldest of them first.
NextJob(q) ==
    LET w == JobsIn(q, "waiting")
        best == {i \in w : \A j \in w : jobs[q][i].priority <= jobs[q][j].priority}
    IN  CHOOSE i \in best : \A j \in best : i <= j

\* Whether a worker of q may take a job: the queue is not paused and a worker
\* has a free slot.
MayDequeueIgnoringPause(q) ==
    Cardinality(JobsIn(q, "active")) < Concurrency * workers[q]
MayDequeue(q) ==
    /\ ~paused[q]
    /\ Cardinality(JobsIn(q, "active")) < Concurrency * workers[q]

\* A worker takes the next waiting job and calls the handler with it.
Dequeue(q) ==
    /\ JobsIn(q, "waiting") # {}
    /\ MayDequeue(q)
    /\ jobs' = [jobs EXCEPT ![q][NextJob(q)].state = "active"]
    /\ UNCHANGED <<nextJobId, paused, workers, broadcastCallback, sink>>
    /\ UNCHANGED <<profileVars, cacheVars, mineVars, schemaVars, transitionVars, imageVars, uiVars, usageVars, batchVars, statusVars>>

\* What processMcrFile(job.data.file, storage, broadcastUpdate) hands to
\* broadcastUpdate when it ends: the job's completion or its failure.
processMcrFile(id, outcome) == {[jobId |-> id, state |-> outcome]}

\* const broadcastUpdate = (data) => { if (this.broadcastCallback) ... }
BroadcastDropped(data) == sink
broadcastUpdate(data) ==
    IF broadcastCallback # Null THEN sink \cup data ELSE sink

\* The handler returns: the job is completed.
HandlerSucceeds(q, id) ==
    /\ id \in JobsIn(q, "active")
    /\ jobs' = [jobs EXCEPT ![q][id].state = "completed"]
    /\ sink' = broadcastUpdate(processMcrFile(id, "completed"))
    /\ UNCHANGED <<nextJobId, paused, workers, broadcastCallback>>
    /\ UNCHANGED <<profileVars, cacheVars, mineVars, schemaVars, transitionVars, imageVars, uiVars, usageVars, batchVars, statusVars>>

\* A job whose handler threw: it is retried while attempts are left (after
\* the backoff delay, if there is one), and failed for good otherwise.
RetryAlways(q, job) ==
    [job EXCEPT !.attemptsMade = @ + 1, !.state = "waiting"]
AfterFailure(q, job) ==
    LET n == job.attemptsMade + 1
    IN  IF n < job.attempts
        THEN [job EXCEPT !.attemptsMade = n,
                         !.delay = BackoffDelay(q, n),
                         !.state = IF BackoffDelay(q, n) > 0
                                   THEN "delayed" ELSE "waiting"]
        ELSE [job EXCEPT !.attemptsMade = n, !.state = "failed"]

\* The handler throws.
HandlerThrows(q, id) ==
    /\ id \in JobsIn(q, "active")
    /\ jobs[q][id].attemptsMade <= ProcessingAttempts  \* no count beyond any budget
    /\ jobs' = [jobs EXCEPT ![q][id] = AfterFailure(q, @)]
    /\ sink' = broadcastUpdate(processMcrFile(id, "failed"))
    /\ UNCHANGED <<nextJobId, paused, workers, broadcastCallback>>
    /\ UNCHANGED <<profileVars, cacheVars, mineVars, schemaVars, transitionVars, imageVars, uiVars, usageVars, batchVars, statusVars>>

\* The backoff delay of a delayed job is over: it waits again.
Promote(q, id) ==
    /\ id \in JobsIn(q, "delayed")
    /\ jobs' = [jobs EXCEPT ![q][id].state = "waiting", ![q][id].delay = 0]
    /\ UNCHANGED <<nextJobId, paused, workers, broadcastCallback, sink>>
    /\ UNCHANGED <<profileVars, cacheVars, mineVars, schemaVars, transitionVars, imageVars, uiVars, usageVars, batchVars, statusVars>>

\* pauseQueue(): this.processingQueue.pause()
pauseQueue ==
    /\ paused' = [paused EXCEPT !["mcr-processing"] = TRUE]
    /\ UNCHANGED <<jobs, nextJobId, workers, broadcastCallback, sink>>
    /\ UNCHANGED <<profileVars, cacheVars, mineVars, schemaVars, transitionVars, imageVars, uiVars, usageVars, batchVars, statusVars>>

\* resumeQueue(): this.processingQueue.resume()
resumeQueue ==
    /\ paused' = [paused EXCEPT !["mcr-processing"] = FALSE]
    /\ UNCHANGED <<jobs, nextJobId, workers, broadcastCallback, sink>>
    /\ UNCHANGED <<profileVars, cacheVars, mineVars, schemaVars, transitionVars, imageVars, uiVars, usageVars, batchVars, statusVars>>

\* queue.clean(grace, limit, type): the jobs of q in state `type` that ended
\* at least `grace` ms ago are removed, the oldest first, at most `limit`.
RECURSIVE Oldest(_, _)
Oldest(S, n) ==
    IF n = 0 \/ S = {} THEN {}
    ELSE LET m == CHOOSE x \in S : \A y \in S : x <= y
         IN  {m} \cup Oldest(S \ {m}, n - 1)

CleanLimit == 1000

CleanFailed(q, limit, type) ==
    [i \in DOMAIN jobs[q] \ Oldest(JobsIn(q, "failed"), limit) |-> jobs[q][i]]

Clean(q, limit, type) ==
    [i \in DOMAIN jobs[q] \ Oldest(JobsIn(q, type), limit) |-> jobs[q][i]]

\* clearCompletedJobs(): this.processingQueue.clean(0, 1000, 'completed')
clearCompletedJobs ==
    /\ jobs' = [jobs EXCEPT !["mcr-processing"] =
                  Clean("mcr-processing", CleanLimit, "completed")]
    /\ UNCHANGED <<nextJobId, paused, workers, broadcastCallback, sink>>
    /\ UNCHANGED <<profileVars, cacheVars, mineVars, schemaVars, transitionVars, imageVars, uiVars, usageVars, batchVars, statusVars>>

\* What the workers do.
WorkerStep ==
    \E q \in Queues :
       \/ Dequeue(q)
       \/ \E id \in JobIds : HandlerSucceeds(q, id)
       \/ \E id \in JobIds : HandlerThrows(q, id)
       \/ \E id \in JobIds : Promote(q, id)

QueueNext ==
    \/ setBroadcastCallback
    \/ addProcessingJob
    \/ addImageAnalysisJob
    \/ addPatternMiningJob
    \/ startWorkers
    \/ pauseQueue
    \/ resumeQueue
    \/ clearCompletedJobs
    \/ WorkerStep

\* The queue service when nobody pauses or clears the queue.
QueueRunNext ==
    \/ setBroadcastCallback
    \/ addProcessingJob
    \/ addImageAnalysisJob
    \/ addPatternMiningJob
    \/ startWorkers
    \/ WorkerStep

(***************************************************************************)
(* PATTERN SERVICE                                                         *)
(***************************************************************************)

\* Bounds of the mining model: the commands of a file, the length of the list
\* of file ids, the minimum frequency and the minimum sequence length asked for.
MaxCmdLen == 3
MaxFileIds == 2
MaxMinFrequency == 3
MaxMinLength == 2
MaxGroupLen == 2
MaxHistory == 1
MaxUpdateId == 2
MaxSecondLen == 2

\* `len <= Math.min(commands.length, 15)` and `.slice(0, 100)`
MaxWindow == 15
MaxPatterns == 100

\* McrCommand: type, action, key?, delay?, x?, y?, text?; an optional number
\* that is not given is NoNumber.
NoNumber == -1
Command(type, action, key, delay, x, y, text) ==
    [type |-> type, action |-> action, key |-> key, delay |-> delay,
     x |-> x, y |-> y, text |-> text]
Keyboard(key) == Command("keyboard", "keydown", key, NoNumber, NoNumber, NoNumber, Absent)
Delay(ms) == Command("delay", "wait", Absent, ms, NoNumber, NoNumber, Absent)
Mouse(action, x, y) == Command("mouse", action, Absent, NoNumber, x, y, Absent)
Text(text) == Command("text", "type", Absent, NoNumber, NoNumber, NoNumber, text)
CommandPool == {Keyboard("a"), Delay(50)}

\* Commands that differ in the key only, in the delay only, in x and y only,
\* in the text only.
GroupPool ==
    {Keyboard("a"), Keyboard("b"), Delay(50), Delay(55),
     Mouse("Move", 1, 2), Mouse("Move", 9, 9), Text("hi"), Text("ho")}

RECURSIVE SeqsUpTo(_, _)
SeqsUpTo(S, n) ==
    IF n = 0 THEN {<<>>}
    ELSE LET shorter == SeqsUpTo(S, n - 1)
         IN  shorter \cup {Append(q, x) : q \in {r \in shorter : Len(r) = n - 1}, x \in S}

FileIds == {"f1", "f2"}

\* A file id names a row of mcr_files and a file of uploads/ whose content
\* parseMcrContent turns into commands ("ok"), a row whose file cannot be
\* read or parsed ("unreadable"), or no row ("missing").
FileStatesOver(pool) ==
    {[status |-> "ok", commands |-> q] : q \in SeqsUpTo(pool, MaxCmdLen)}
      \cup {[status |-> st, commands |-> <<>>] : st \in {"missing", "unreadable"}}

NotMined ==
    [called |-> FALSE, fileIds |-> <<>>, minSequenceLength |-> 0,
     minFrequency |-> 0, raised |-> FALSE, saved |-> <<>>]

MineIdle ==
    /\ files = [f \in FileIds |-> [status |-> "missing", commands |-> <<>>]]
    /\ patterns = <<>>
    /\ mined = NotMined
    /\ remined = NotMined

MineInit ==
    /\ files \in [FileIds -> FileStatesOver(CommandPool)]
    /\ patterns = <<>>
    /\ mined = NotMined
    /\ remined = NotMined

\* Two files that can be read: up to MaxGroupLen commands of GroupPool in the
\* first, of CommandPool in the second.
GroupInit ==
    /\ files \in {[f \in FileIds |-> IF f = "f1" THEN a ELSE b] :
                    a \in {[status |-> "ok", commands |-> q] :
                               q \in SeqsUpTo(GroupPool, MaxGroupLen)},
                    b \in {[status |-> "ok", commands |-> q] :
                               q \in SeqsUpTo(CommandPool, MaxGroupLen)}}
    /\ patterns = <<>>
    /\ mined = NotMined
    /\ remined = NotMined

\* `${cmd.type}:${cmd.action}:${cmd.key || ''}` joined by '|'
CommandKeyWithDelay(cmd) ==
    cmd.type \o ":" \o cmd.action \o ":"
       \o (IF cmd.key = Absent THEN "" ELSE cmd.key)
       \o (IF cmd.delay = NoNumber THEN "" ELSE ":" \o ToString(cmd.delay))
CommandKey(cmd) ==
    cmd.type \o ":" \o cmd.action \o ":" \o (IF cmd.key = Absent THEN "" ELSE cmd.key)

RECURSIVE sequenceToKey(_)
sequenceToKey(sequence) ==
    IF sequence = <<>> THEN ""
    ELSE IF Len(sequence) = 1 THEN CommandKey(sequence[1])
    ELSE CommandKey(sequence[1]) \o "|" \o sequenceToKey(Tail(sequence))

Min(a, b) == IF a <= b THEN a ELSE b

\* The position in `groups` of the entry of `key`, 0 when there is none.
KeyIndex(groups, key) ==
    IF \E k \in 1..Len(groups) : groups[k].key = key
    THEN CHOOSE k \in 1..Len(groups) : groups[k].key = key
    ELSE 0

\* const key = this.sequenceToKey(commands.slice(i, i + len))
WindowKey(commands, len, i) == sequenceToKey(SubSeq(commands, i + 1, i + len))

\* The body of the innermost loop for a key without an entry: the entry is
\* set, so the first window of a key is the one kept, and counted.
FirstWindow(groups, fileId, commands, len, i) ==
    Append(groups, [key |-> WindowKey(commands, len, i),
                    sequence |-> SubSeq(commands, i + 1, i + len),
                    frequency |-> 1,
                    occurrences |-> <<[fileId |-> fileId, index |-> i]>>])

\* The body of the innermost loop for a key that has an entry.
CountWindow(groups, fileId, commands, len, i) ==
    LET k == KeyIndex(groups, WindowKey(commands, len, i))
    IN  [groups EXCEPT ![k].frequency = @ + 1,
                       ![k].occurrences = Append(@, [fileId |-> fileId, index |-> i])]

\* The two inner loops over one file's commands, from window (len, i) on.
RECURSIVE ScanFile(_, _, _, _, _)
ScanFile(groups, fileId, commands, len, i) ==
    IF len > Min(Len(commands), MaxWindow) THEN groups
    ELSE IF i > Len(commands) - len
         THEN ScanFile(groups, fileId, commands, len + 1, 0)
         ELSE IF KeyIndex(groups, WindowKey(commands, len, i)) = 0
              THEN ScanFile(FirstWindow(groups, fileId, commands, len, i),
                            fileId, commands, len, i + 1)
              ELSE ScanFile(CountWindow(groups, fileId, commands, len, i),
                            fileId, commands, len, i + 1)

\* The outer loop over allCommands.
RECURSIVE ScanAll(_, _, _)
ScanAll(groups, allCommands, minLength) ==
    IF allCommands = <<>> THEN groups
    ELSE ScanAll(ScanFile(groups, Head(allCommands).fileId,
                          Head(allCommands).commands, minLength, 0),
                 Tail(allCommands), minLength)

\* .filter(p => p.frequency >= minFrequency)
FrequentAndNotStored(groups, minFrequency) ==
    SelectSeq(groups, LAMBDA p :
        /\ p.frequency >= minFrequency
        /\ \A k \in 1..Len(patterns) : patterns[k].commandSequence # p.sequence)
Frequent(groups, minFrequency) ==
    SelectSeq(groups, LAMBDA p : p.frequency >= minFrequency)

\* .sort((a, b) => b.frequency - a.frequency): stable, the highest frequency first.
RECURSIVE InsertByFrequency(_, _)
InsertByFrequency(sorted, p) ==
    IF sorted = <<>> THEN <<p>>
    ELSE IF Head(sorted).frequency >= p.frequency
         THEN <<Head(sorted)>> \o InsertByFrequency(Tail(sorted), p)
         ELSE <<p>> \o sorted

RECURSIVE SortByFrequency(_)
SortByFrequency(groups) ==
    IF groups = <<>> THEN <<>>
    ELSE InsertByFrequency(SortByFrequency(SubSeq(groups, 1, Len(groups) - 1)),
                           groups[Len(groups)])

findFrequentSequences(allCommands, minLength, minFrequency) ==
    LET sorted == SortByFrequency(
                     Frequent(ScanAll(<<>>, allCommands, minLength), minFrequency))
    IN  SubSeq(sorted, 1, Min(Len(sorted), MaxPatterns))

MinReal(a, b) == IF LessEq(b, a) THEN b ELSE a

\* Math.min(frequency / (totalFiles * 2), 1.0)
calculateConfidenceUnclamped(frequency, totalFiles) ==
    Ratio(frequency, totalFiles * 2)
calculateConfidence(frequency, totalFiles) ==
    MinReal(Ratio(frequency, totalFiles * 2), Ratio(1, 1))

\* Array.from(new Set(pattern.occurrences.map(o => o.fileId)))
SourceFileIds(occurrences) == {occurrences[k].fileId : k \in 1..Len(occurrences)}

\* The loop that builds allCommands: an id without a row is skipped.
RECURSIVE AllCommands(_)
AllCommands(fileIds) ==
    IF fileIds = <<>> THEN <<>>
    ELSE LET rest == AllCommands(Tail(fileIds))
             file == files[Head(fileIds)]
         IN  IF file.status = "missing" THEN rest
             ELSE <<[fileId |-> Head(fileIds), commands |-> file.commands]>> \o rest

\* fs.readFile or parseMcrContent throws for a file of the list.
ReadFails(fileIds) ==
    \E k \in 1..Len(fileIds) : files[fileIds[k]].status = "unreadable"

\* The row inserted for one discovered pattern.
PatternRow(pattern, totalFiles) ==
    [commandSequence |-> pattern.sequence,
     frequency |-> pattern.frequency,
     confidence |-> calculateConfidence(pattern.frequency, totalFiles),
     sourceFileIds |-> SourceFileIds(pattern.occurrences),
     updatedAt |-> "created",
     version |-> 1]

SavedPatterns(fileIds, minSequenceLength, minFrequency) ==
    LET discovered == findFrequentSequences(AllCommands(fileIds),
                                            minSequenceLength, minFrequency)
    IN  [k \in 1..Len(discovered) |-> PatternRow(discovered[k], Len(fileIds))]

\* What one call of minePatterns saves and returns, or that it raised.
MineCall(fileIds, minSequenceLength, minFrequency) ==
    [called |-> TRUE, fileIds |-> fileIds,
     minSequenceLength |-> minSequenceLength, minFrequency |-> minFrequency,
     raised |-> ReadFails(fileIds),
     saved |-> IF ReadFails(fileIds) THEN <<>>
               ELSE SavedPatterns(fileIds, minSequenceLength, minFrequency)]

\* minePatterns(fileIds, minSequenceLength, minFrequency), one request.
minePatterns ==
    /\ ~mined.called
    /\ \E fileIds \in SeqsUpTo(FileIds, MaxFileIds),
          minSequenceLength \in 1..MaxMinLength,
          minFrequency \in 1..MaxMinFrequency :
          LET call == MineCall(fileIds, minSequenceLength, minFrequency)
          IN  /\ patterns' = patterns \o call.saved
              /\ mined' = call
    /\ UNCHANGED <<files, remined>>
    /\ UNCHANGED <<profileVars, cacheVars, queueVars, schemaVars, transitionVars, imageVars, uiVars, usageVars, batchVars, statusVars>>

\* The same request is sent once more: minePatterns with the arguments of
\* the first call, the files as they were.
minePatternsAgain ==
    /\ mined.called
    /\ ~remined.called
    /\ \E fileIds \in {mined.fileIds},
          minSequenceLength \in {mined.minSequenceLength},
          minFrequency \in {mined.minFrequency} :
          LET call == MineCall(fileIds, minSequenceLength, minFrequency)
          IN  /\ patterns' = patterns \o call.saved
              /\ remined' = call
    /\ UNCHANGED <<files, mined>>
    /\ UNCHANGED <<profileVars, cacheVars, queueVars, schemaVars, transitionVars, imageVars, uiVars, usageVars, batchVars, statusVars>>

MineNext == minePatterns

\* The ids updatePattern is called with (the place of the row in the table;
\* an id beyond the last row names no pattern) and the columns it is given:
\* a number that is not given is NoNumber.
UpdatedPatternIds == 1..MaxUpdateId
PatternUpdates == [frequency : {NoNumber, 7}, version : {NoNumber, 3}]

\* storage.updatePattern(id, updates):
\* update(patterns).set({...updates, updatedAt: new Date()}).where(id = id)
updatePattern(id, updates) ==
    /\ mined.called
    /\ patterns' =
          IF id \in DOMAIN patterns
          THEN [patterns EXCEPT ![id] =
                  [@ EXCEPT !.frequency = IF updates.frequency = NoNumber THEN @
                                          ELSE updates.frequency,
                            !.version = IF updates.version = NoNumber THEN @
                                        ELSE updates.version,
                            !.updatedAt = "later"]]
          ELSE patterns
    /\ UNCHANGED <<files, mined, remined>>
    /\ UNCHANGED <<profileVars, cacheVars, queueVars, schemaVars, transitionVars, imageVars, uiVars, usageVars, batchVars, statusVars>>

PatternStoreNext ==
    \/ minePatterns
    \/ \E id \in UpdatedPatternIds, updates \in PatternUpdates :
          updatePattern(id, updates)

RemineNext ==
    \/ minePatterns
    \/ minePatternsAgain

(***************************************************************************)
(* TRANSITION ANALYSIS                                                     *)
(***************************************************************************)

\* The commands of the analysed files: a key, the key ':' and a command
\* without a key.
TransitionPool == {Keyboard("a"), Keyboard(":"), Delay(50)}

NoAnalysis == [pc |-> "idle", fileIds |-> <<>>, rest |-> <<>>, done |-> <<>>]
NoCommand == Command("", "", Absent, NoNumber, NoNumber, NoNumber, Absent)
NoPrediction ==
    [called |-> FALSE, previousCommands |-> <<>>, isNull |-> TRUE,
     command |-> NoCommand]

TransitionIdle ==
    /\ transitions = <<>>
    /\ analysis = NoAnalysis
    /\ prediction = NoPrediction

\* The first file holds up to MaxCmdLen commands, the second up to
\* MaxSecondLen; each may also be missing or unreadable.
TransitionInit ==
    /\ files \in {[f \in FileIds |-> IF f = "f1" THEN a ELSE b] :
                    a \in FileStatesOver(TransitionPool),
                    b \in {c \in FileStatesOver(TransitionPool) :
                              Len(c.commands) <= MaxSecondLen}}
    /\ patterns = <<>>
    /\ mined = NotMined
    /\ remined = NotMined
    /\ TransitionIdle

\* A string as the list of its pieces: a piece is ":" or a string without a
\* colon; the empty string has no piece.
Pieces(str) == IF str = "" THEN <<>> ELSE <<str>>

\* `cmd.key || cmd.action`
KeyOrAction(cmd) ==
    IF cmd.key # Absent /\ cmd.key # "" THEN cmd.key ELSE cmd.action

\* `${cmd.type}:${cmd.key || cmd.action}`
StateKey(cmd) == Pieces(cmd.type) \o <<":">> \o Pieces(KeyOrAction(cmd))

\* transitions.get(current)?.get(next), 0 when there is none
EntryIndex(table, current) ==
    IF \E k \in 1..Len(table) : table[k].from = current
    THEN CHOOSE k \in 1..Len(table) : table[k].from = current
    ELSE 0

EdgeIndex(edges, next) ==
    IF \E k \in 1..Len(edges) : edges[k].next = next
    THEN CHOOSE k \in 1..Len(edges) : edges[k].next = next
    ELSE 0

\* nextMap.set(next, (nextMap.get(next) || 0) + 1)
BumpForgetful(edges, next) ==
    LET k == EdgeIndex(edges, next)
    IN  IF k = 0 THEN Append(edges, [next |-> next, count |-> 1])
        ELSE [edges EXCEPT ![k].count = 1]
Bump(edges, next) ==
    LET k == EdgeIndex(edges, next)
    IN  IF k = 0 THEN Append(edges, [next |-> next, count |-> 1])
        ELSE [edges EXCEPT ![k].count = @ + 1]

\* The body of the loop over i: the entry of `current` is made when it is
\* missing, then its edge to `next` is counted.
CountTransition(table, current, next) ==
    LET withEntry == IF EntryIndex(table, current) = 0
                     THEN Append(table, [from |-> current, edges |-> <<>>])
                     ELSE table
        k == EntryIndex(withEntry, current)
    IN  [withEntry EXCEPT ![k].edges = Bump(@, next)]

\* for (let i = 0; i < commands.length - 1; i++), from index i on
RECURSIVE CountPairs(_, _, _)
CountPairs(table, commands, i) ==
    IF i >= Len(commands) - 1 THEN table
    ELSE CountPairs(CountTransition(table, StateKey(commands[i + 1]),
                                    StateKey(commands[i + 2])),
                    commands, i + 1)

\* analyzeCommandTransitions(fileIds) is called: an empty table.
analyzeCommandTransitions ==
    /\ analysis.pc = "idle"
    /\ \E fileIds \in SeqsUpTo(FileIds, MaxFileIds) :
          analysis' = [pc |-> "running", fileIds |-> fileIds, rest |-> fileIds,
                       done |-> <<>>]
    /\ transitions' = <<>>
    /\ UNCHANGED prediction
    /\ UNCHANGED <<profileVars, cacheVars, queueVars, mineVars, schemaVars, imageVars, uiVars, usageVars, batchVars, statusVars>>

\* One turn of the loop over fileIds: an id without a record is skipped, a
\* file that cannot be read or parsed rejects the call, the pairs of a file
\* that can are counted.
AnalyzeFile ==
    /\ analysis.pc = "running"
    /\ analysis.rest # <<>>
    /\ LET file == files[Head(analysis.rest)]
       IN  IF file.status = "missing"
           THEN /\ analysis' = [analysis EXCEPT !.rest = Tail(@)]
                /\ UNCHANGED transitions
           ELSE IF file.status = "unreadable"
           THEN /\ analysis' = [analysis EXCEPT !.pc = "raised"]
                /\ UNCHANGED transitions
           ELSE /\ analysis' = [analysis EXCEPT !.rest = Tail(@),
                                                !.done = Append(@, file.commands)]
                /\ transitions' = CountPairs(transitions, file.commands, 0)
    /\ UNCHANGED prediction
    /\ UNCHANGED <<profileVars, cacheVars, queueVars, mineVars, schemaVars, imageVars, uiVars, usageVars, batchVars, statusVars>>

\* return transitions
ReturnTransitions ==
    /\ analysis.pc = "running"
    /\ analysis.rest = <<>>
    /\ analysis' = [analysis EXCEPT !.pc = "done"]
    /\ UNCHANGED <<transitions, prediction>>
    /\ UNCHANGED <<profileVars, cacheVars, queueVars, mineVars, schemaVars, imageVars, uiVars, usageVars, batchVars, statusVars>>

\* bestNext.split(':'): the lists of pieces between the colons.
RECURSIVE SplitColon(_)
SplitColon(pieces) ==
    IF pieces = <<>> THEN << <<>> >>
    ELSE LET rest == SplitColon(Tail(pieces))
         IN  IF Head(pieces) = ":" THEN << <<>> >> \o rest
             ELSE << <<Head(pieces)>> \o rest[1] >> \o Tail(rest)

\* A list of pieces without a colon, as the string it spells.
Spelled(pieces) == IF pieces = <<>> THEN "" ELSE pieces[1]

\* nextOptions.forEach: the first edge with the highest count.
RECURSIVE BestEdge(_, _, _)
BestEdge(edges, maxCount, bestNext) ==
    IF edges = <<>> THEN bestNext
    ELSE IF Head(edges).count > maxCount
         THEN BestEdge(Tail(edges), Head(edges).count, Head(edges).next)
         ELSE BestEdge(Tail(edges), maxCount, bestNext)

\* The outgoing edges of the state of the last command: transitions.get(key)
NextOptions(table, lastCmd) ==
    LET k == EntryIndex(table, StateKey(lastCmd))
    IN  IF k = 0 THEN <<>> ELSE table[k].edges

\* The command made from bestNext.
CommandFromKey(bestNext) ==
    LET parts == SplitColon(bestNext)
        type == Spelled(parts[1])
        keyOrAction == Spelled(parts[2])
    IN  Command(type,
                IF type = "keyboard" THEN "keydown" ELSE keyOrAction,
                IF type = "keyboard" THEN keyOrAction ELSE Absent,
                NoNumber, NoNumber, NoNumber, Absent)

\* getPredictedNextCommand(previousCommands, transitions) with the table the
\* analysis returned.
getPredictedNextCommand ==
    /\ analysis.pc = "done"
    /\ ~prediction.called
    /\ \E previousCommands \in SeqsUpTo(TransitionPool, MaxHistory) :
          LET nextOptions ==
                 IF previousCommands = <<>> THEN <<>>
                 ELSE NextOptions(transitions,
                                  previousCommands[Len(previousCommands)])
          IN  prediction' =
                 [called |-> TRUE, previousCommands |-> previousCommands,
                  isNull |-> (nextOptions = <<>>),
                  command |-> IF nextOptions = <<>> THEN NoCommand
                              ELSE CommandFromKey(BestEdge(nextOptions, 0, <<>>))]
    /\ UNCHANGED <<transitions, analysis>>
    /\ UNCHANGED <<profileVars, cacheVars, queueVars, mineVars, schemaVars, imageVars, uiVars, usageVars, batchVars, statusVars>>

TransitionNext ==
    \/ analyzeCommandTransitions
    \/ AnalyzeFile
    \/ ReturnTransitions
    \/ getPredictedNextCommand

(***************************************************************************)
(* SHARED SCHEMA                                                           *)
(***************************************************************************)

NoRequest == [op |-> None]
NoResponse == [op |-> None]

SchemaIdle ==
    /\ request = NoRequest
    /\ response = NoResponse

\* The commands isCommandEqual is asked about: they differ in the key, the
\* action, the type, the delay, x and y, the text.
EqualPool ==
    {Keyboard("a"), Keyboard("b"),
     Command("keyboard", "keyup", "a", NoNumber, NoNumber, NoNumber, Absent),
     Command("text", "keydown", "a", NoNumber, NoNumber, NoNumber, "a"),
     Command("text", "keydown", "a", NoNumber, NoNumber, NoNumber, "b"),
     Delay(50), Delay(55), Mouse("Move", 1, 2), Mouse("Move", 9, 9),
     Command("mouse", "wait", Absent, NoNumber, 1, 2, Absent)}

EqualRequests ==
    {[op |-> "isCommandEqual", cmd1 |-> a, cmd2 |-> b] : a, b \in EqualPool}

\* The settings objects given to humanizationSettingsSchema: a number that is
\* not given is NoNumber (the boolean and string fields are left out, they
\* have no range).
SettingsObjects ==
    [delayVariation : {NoNumber, 0, 1, 100, 101},
     typingErrors : {0, 11},
     hesitationPauses : {50, 51},
     timeExtensionFactor : {1, 6},
     minDelay : {NoNumber, 0, 50, 100, 101},
     maxDelay : {NoNumber, 9, 10, 1000, 1001}]

SettingsRequests ==
    {[op |-> "humanizationSettingsSchema", settings |-> o] : o \in SettingsObjects}

SchemaInit ==
    /\ request \in EqualRequests \cup SettingsRequests
    /\ response = NoResponse

\* cmd1.key === cmd2.key && cmd1.action === cmd2.action
isCommandEqual(cmd1, cmd2) ==
    cmd1.key = cmd2.key /\ cmd1.action = cmd2.action

\* z.number().min(lo).max(hi).default(d): what the field parses to, and
\* whether it is accepted.
NumberField(value, default) == IF value = NoNumber THEN default ELSE value
InRange(value, lo, hi) == lo <= value /\ value <= hi

\* humanizationSettingsSchema: the object with its defaults filled in.
SettingsParsed(o) ==
    [delayVariation |-> NumberField(o.delayVariation, 10),
     typingErrors |-> NumberField(o.typingErrors, 1),
     hesitationPauses |-> NumberField(o.hesitationPauses, 5),
     timeExtensionFactor |-> NumberField(o.timeExtensionFactor, 1),
     minDelay |-> NumberField(o.minDelay, 10),
     maxDelay |-> NumberField(o.maxDelay, 100)]

humanizationSettingsSchema(o) ==
    LET v == SettingsParsed(o)
    IN  /\ InRange(v.delayVariation, 1, 100)
        /\ InRange(v.typingErrors, 0, 10)
        /\ InRange(v.hesitationPauses, 0, 50)
        /\ InRange(v.timeExtensionFactor, 1, 5)
        /\ InRange(v.minDelay, 0, 100)
        /\ InRange(v.maxDelay, 10, 1000)

\* isCommandEqual(cmd1, cmd2) is evaluated.
CallIsCommandEqual ==
    /\ request.op = "isCommandEqual"
    /\ response = NoResponse
    /\ response' = [op |-> request.op,
                    result |-> isCommandEqual(request.cmd1, request.cmd2)]
    /\ UNCHANGED request
    /\ UNCHANGED <<profileVars, cacheVars, queueVars, mineVars, transitionVars, imageVars, uiVars, usageVars, batchVars, statusVars>>

\* humanizationSettingsSchema.safeParse(settings) is evaluated.
ParseSettings ==
    /\ request.op = "humanizationSettingsSchema"
    /\ response = NoResponse
    /\ response' = [op |-> request.op,
                    success |-> humanizationSettingsSchema(request.settings),
                    data |-> SettingsParsed(request.settings)]
    /\ UNCHANGED request
    /\ UNCHANGED <<profileVars, cacheVars, queueVars, mineVars, transitionVars, imageVars, uiVars, usageVars, batchVars, statusVars>>

SchemaNext ==
    \/ CallIsCommandEqual
    \/ ParseSettings

\* adjustSettingsForTypingSpeed(settings, typingSpeed) of the profile
\* service: settings within the bounds of the schema, at and next to the
\* values where a multiplier leaves the range or rounds.
AdjustSettings ==
    [delayVariation : {1, 2, 66, 67, 100},
     typingErrors : {0, 10},
     hesitationPauses : {0, 1, 33, 34, 50},
     preserveStructure : BOOLEAN,
     timeExtensionFactor : {1, 5}]

AdjustRequests ==
    {[op |-> "adjustSettingsForTypingSpeed", settings |-> o, typingSpeed |-> t] : o \in AdjustSettings, t \in {"slow", "medium", "fast"}}

AdjustInit ==
    /\ request \in AdjustRequests
    /\ response = NoResponse

\* speedMultipliers
speedMultipliers ==
    [slow |-> Ratio(15, 10), medium |-> Ratio(10, 10), fast |-> Ratio(6, 10)]

\* Math.round(value * multiplier): the nearest integer, a half rounded up.
MathRound(value, multiplier) ==
    (2 * value * multiplier.num + multiplier.den) \div (2 * multiplier.den)

\* adjustSettingsForTypingSpeed(settings, typingSpeed): a new object.
adjustSettingsForTypingSpeed(settings, typingSpeed) ==
    LET multiplier == speedMultipliers[typingSpeed]
    IN  [settings EXCEPT !.delayVariation = MathRound(settings.delayVariation, multiplier),
                         !.hesitationPauses = MathRound(settings.hesitationPauses, multiplier)]

\* adjustSettingsForTypingSpeed(settings, typingSpeed) is evaluated.
CallAdjustSettings ==
    /\ request.op = "adjustSettingsForTypingSpeed"
    /\ response = NoResponse
    /\ response' = [op |-> request.op,
                    settings |-> adjustSettingsForTypingSpeed(request.settings, request.typingSpeed)]
    /\ UNCHANGED request
    /\ UNCHANGED <<profileVars, cacheVars, queueVars, mineVars, transitionVars, imageVars, uiVars, usageVars, batchVars, statusVars>>

AdjustNext == CallAdjustSettings

(***************************************************************************)
(* IMAGE ANALYSIS SERVICE                                                  *)
(***************************************************************************)

\* Bounds of the image model: the rows of image_analysis, the elements of a
\* detected layout and the elements of a list of mixed kinds.
MaxAnalyses == 2
MaxElements == 3
MaxKinds == 2

\* UIElement: type, bounds and text (its characters).
UIElement(type, x, y, text) ==
    [type |-> type, bounds |-> [x |-> x, y |-> y, width |-> 10, height |-> 10],
     text |-> text]

\* Layouts: labels on a grid whose rows are 40 px apart, so that rows
\* overlap pairwise in a chain, and elements of every kind.
LayoutPool == {UIElement("label", x, y, <<>>) : x \in {0, 5, 10}, y \in {0, 40, 80}}
KindPool ==
    {UIElement("button", 0, 0, <<"o", "k">>), UIElement("textfield", 0, 100, <<"a">>),
     UIElement("label", 0, 200, <<"l">>)}
ElementLists == SeqsUpTo(LayoutPool, MaxElements) \cup SeqsUpTo(KindPool, MaxKinds)

\* What detectUIElements returns in the model of analyzeImage.
DetectedLists == {<<>>, <<UIElement("button", 0, 0, <<"o", "k">>)>>}

\* The detected_elements column: null until the analysis completes.
NoElements == [given |-> FALSE, list |-> <<>>]
Elements(list) == [given |-> TRUE, list |-> list]

AnalysisRow(id, imageId, processingStatus, detectedElements) ==
    [id |-> id, imageId |-> imageId, processingStatus |-> processingStatus,
     detectedElements |-> detectedElements]

\* The row after the catch block: processingStatus 'failed'.
FailedRowLeftProcessing(id, imageId) == AnalysisRow(id, imageId, "processing", NoElements)
FailedRow(id, imageId) == AnalysisRow(id, imageId, "failed", NoElements)

NoImageCall ==
    [op |-> None, imageId |-> None, raised |-> FALSE, cacheHit |-> FALSE,
     created |-> 0, cached |-> FALSE]
NotGenerated ==
    [called |-> FALSE, imageId |-> None, raised |-> FALSE, read |-> 0,
     elements |-> <<>>, commands |-> <<>>]

ImageIdle ==
    /\ analyses = <<>>
    /\ imageCall = NoImageCall
    /\ generated = NotGenerated

\* One completed analysis of the image, of any layout.
McrInit ==
    /\ analyses \in {<<AnalysisRow(1, "img1", "completed", Elements(l))>> :
                        l \in ElementLists}
    /\ imageCall = NoImageCall
    /\ generated = NotGenerated

\* JSON.stringify(updatedAnalysis), as far as the model tells rows apart.
AnalysisJson(row) == row.processingStatus \o ":" \o ToString(row.id)

\* analyzeImage(imageId, imagePath): a cache hit returns at once; otherwise a
\* row is inserted as 'processing', and the pipeline (preprocessImage,
\* performOCR, detectUIElements, the update) either completes the row, which
\* is then cached, or throws, and the catch marks the row failed and rethrows.
analyzeImage(imageId) ==
    LET hit == Guarded(Parsed(store.data[ImageKey(imageId)]), Returns(Null, 0))
        id == Len(analyses) + 1
        set == Guarded(Returns("stored", 0), Returns("void", 0))
    IN  IF hit.value # Null
        THEN /\ imageCall' = [op |-> "analyzeImage", imageId |-> imageId,
                              raised |-> FALSE, cacheHit |-> TRUE,
                              created |-> 0, cached |-> FALSE]
             /\ UNCHANGED <<analyses, store>>
        ELSE /\ id <= MaxAnalyses
             /\ \/ \E uiElements \in DetectedLists :
                      LET updatedAnalysis ==
                             AnalysisRow(id, imageId, "completed", Elements(uiElements))
                      IN  /\ analyses' = Append(analyses, updatedAnalysis)
                          /\ store' = IF set.value = "stored"
                                      THEN [store EXCEPT !.data[ImageKey(imageId)] =
                                              AnalysisJson(updatedAnalysis)]
                                      ELSE store
                          /\ imageCall' = [op |-> "analyzeImage", imageId |-> imageId,
                                           raised |-> FALSE, cacheHit |-> FALSE,
                                           created |-> id,
                                           cached |-> (set.value = "stored")]
                \/ /\ analyses' = Append(analyses, FailedRow(id, imageId))
                   /\ imageCall' = [op |-> "analyzeImage", imageId |-> imageId,
                                    raised |-> TRUE, cacheHit |-> FALSE,
                                    created |-> id, cached |-> FALSE]
                   /\ UNCHANGED store

AnalyzeImage ==
    /\ \E imageId \in ImageIds : analyzeImage(imageId)
    /\ UNCHANGED <<redis, enabled, backend, cacheResult, generated>>
    /\ UNCHANGED <<profileVars, queueVars, mineVars, schemaVars, transitionVars, uiVars, usageVars, batchVars, statusVars>>

Abs(n) == IF n < 0 THEN -n ELSE n

\* The comparator of sortedElements.
CompareElements(a, b) ==
    IF Abs(a.bounds.y - b.bounds.y) < 50
    THEN a.bounds.x - b.bounds.x
    ELSE a.bounds.y - b.bounds.y

Orders(n) ==
    {p \in [1..n -> 1..n] : \A i, j \in 1..n : i # j => p[i] # p[j]}

\* Whether the comparator is a consistent comparator for the elements: equal
\* and less-than are transitive on them.
Consistent(elements) ==
    \A i, j, k \in 1..Len(elements) :
       LET ij == CompareElements(elements[i], elements[j])
           jk == CompareElements(elements[j], elements[k])
           ik == CompareElements(elements[i], elements[k])
       IN  /\ (ij = 0 /\ jk = 0) => ik = 0
           /\ (ij < 0 /\ jk < 0) => ik < 0
           /\ (ij < 0 /\ jk = 0) => ik < 0
           /\ (ij = 0 /\ jk < 0) => ik < 0

\* [...elements].sort(comparator): the stable sorted order when the comparator
\* is consistent, an order of the implementation's choosing when it is not.
SortedOrders(elements) ==
    LET n == Len(elements)
        stable == {p \in Orders(n) :
                     \A i, j \in 1..n : i < j =>
                        LET c == CompareElements(elements[p[i]], elements[p[j]])
                        IN  c < 0 \/ (c = 0 /\ p[i] < p[j])}
        orders == IF Consistent(elements) THEN stable ELSE Orders(n)
    IN  {[i \in 1..n |-> elements[p[i]]] : p \in orders}

\* Math.round of the half n2 / 2
RoundHalf(n2) == (n2 + 1) \div 2

\* Math.round(Math.random() * (max - min) + min): any value of min..max; the
\* model follows the lowest and the highest, picked by the next random draw.
DelaysIn(commands) == {k \in DOMAIN commands : commands[k].type = "delay"}
randomDelay(draws, commands, min, max) ==
    IF draws[Cardinality(DelaysIn(commands)) + 1] = 0 THEN min ELSE max

Key(action, key) == Command("keyboard", action, key, NoNumber, NoNumber, NoNumber, Absent)

\* for (const char of element.text): keydown, delay, keyup, delay
RECURSIVE TypeText(_, _, _)
TypeText(commands, text, draws) ==
    IF text = <<>> THEN commands
    ELSE LET down == Append(commands, Key("keydown", Head(text)))
             held == Append(down, Delay(randomDelay(draws, down, 50, 150)))
             up == Append(held, Key("keyup", Head(text)))
             after == Append(up, Delay(randomDelay(draws, up, 30, 100)))
         IN  TypeText(after, Tail(text), draws)

\* The body of the loop over sortedElements for element number i.
VisitElement(commands, element, i, draws) ==
    LET centerX == RoundHalf(2 * element.bounds.x + element.bounds.width)
        centerY == RoundHalf(2 * element.bounds.y + element.bounds.height)
        gap == IF i > 1
               THEN Append(commands, Delay(randomDelay(draws, commands, 200, 500)))
               ELSE commands
        move == Append(gap, Mouse("Move", centerX, centerY))
        moved == Append(move, Delay(randomDelay(draws, move, 100, 300)))
        down == Append(moved, Mouse("LeftButtonDown", centerX, centerY))
    IN  IF element.type = "button"
        THEN Append(Append(down, Delay(randomDelay(draws, down, 50, 150))),
                    Mouse("LeftButtonUp", centerX, centerY))
        ELSE IF element.type = "textfield" /\ element.text # <<>>
        THEN LET up == Append(down, Mouse("LeftButtonUp", centerX, centerY))
             IN  TypeText(Append(up, Delay(randomDelay(draws, up, 200, 400))),
                          element.text, draws)
        ELSE moved

RECURSIVE VisitAll(_, _, _, _)
VisitAll(commands, sortedElements, i, draws) ==
    IF i > Len(sortedElements) THEN commands
    ELSE VisitAll(VisitElement(commands, sortedElements[i], i, draws),
                  sortedElements, i + 1, draws)

\* The delays generateMCRFromImage draws for one element and for a list.
ElementDraws(element) ==
    IF element.type = "button" THEN 2
    ELSE IF element.type = "textfield" /\ element.text # <<>>
    THEN 2 + 2 * Len(element.text)
    ELSE 1

RECURSIVE DrawCount(_)
DrawCount(sortedElements) ==
    IF sortedElements = <<>> THEN 0
    ELSE ElementDraws(Head(sortedElements)) + DrawCount(Tail(sortedElements))
           + (IF Len(sortedElements) > 1 THEN 1 ELSE 0)

\* findFirst({where: eq(imageAnalysis.imageId, imageId)}): no order is asked
\* for, so the row returned is any row of the image.
RowsOf(imageId) == {k \in DOMAIN analyses : analyses[k].imageId = imageId}

\* generateMCRFromImage(imageId)
generateMCRFromImage(imageId) ==
    \/ /\ RowsOf(imageId) = {}
       /\ generated' = [called |-> TRUE, imageId |-> imageId, raised |-> TRUE,
                        read |-> 0, elements |-> <<>>, commands |-> <<>>]
    \/ \E k \in RowsOf(imageId) :
          LET analysisRecord == analyses[k]
          IN  IF ~analysisRecord.detectedElements.given
              THEN generated' = [called |-> TRUE, imageId |-> imageId,
                                 raised |-> TRUE, read |-> k,
                                 elements |-> <<>>, commands |-> <<>>]
              ELSE \E sortedElements \in SortedOrders(analysisRecord.detectedElements.list) :
                      \E draws \in [1..DrawCount(sortedElements) -> {0, 1}] :
                         generated' =
                            [called |-> TRUE, imageId |-> imageId, raised |-> FALSE,
                             read |-> k,
                             elements |-> analysisRecord.detectedElements.list,
                             commands |-> VisitAll(<<>>, sortedElements, 1, draws)]

GenerateMCRFromImage ==
    /\ \E imageId \in ImageIds : generateMCRFromImage(imageId)
    /\ UNCHANGED <<analyses, imageCall>>
    /\ UNCHANGED <<profileVars, cacheVars, queueVars, mineVars, schemaVars, transitionVars, uiVars, usageVars, batchVars, statusVars>>

\* One call of generateMCRFromImage.
McrNext == ~generated.called /\ GenerateMCRFromImage

\* The image service and what happens to its cache meanwhile.
ImageNext ==
    \/ AnalyzeImage
    \/ GenerateMCRFromImage
    \/ RedisConnect
    \/ RedisError
    \/ ConnectRejected
    \/ Expire
    \/ BackendChanges

(***************************************************************************)
(* FILE UPLOAD COMPONENT                                                   *)
(***************************************************************************)

\* Bound of the component model: the images of the /api/images query.
MaxImages == 2

UiImageIds == {"img" \o ToString(i) : i \in 1..MaxImages}

\* useState(false), useState(null) and idle mutations.
UiIdle ==
    /\ selectedImageId = Null
    /\ selectedFile = FALSE
    /\ showPathDrawer = FALSE
    /\ pathCompleted = FALSE
    /\ isUploading = FALSE
    /\ images = <<>>
    /\ savePathMutation = {}
    /\ uploadMutation = {}
    /\ selectedHadPath = FALSE
    /\ savedPaths = {}

\* The component after its images query has loaded: each image with or
\* without a drawn path.
UiInit ==
    /\ selectedImageId = Null
    /\ selectedFile = FALSE
    /\ showPathDrawer = FALSE
    /\ pathCompleted = FALSE
    /\ isUploading = FALSE
    /\ images \in [UiImageIds -> [drawnPath : BOOLEAN]]
    /\ savePathMutation = {}
    /\ uploadMutation = {}
    /\ selectedHadPath = FALSE
    /\ savedPaths = {}

\* const selectedImage = images.find(img => img.id === selectedImageId), and
\* the branch that renders the ImagePathDrawer instead of the two cards.
DrawerShown ==
    showPathDrawer /\ selectedImageId # Null /\ selectedImageId \in DOMAIN images

\* resetUploadState()
resetUploadState ==
    /\ selectedFile' = FALSE
    /\ selectedImageId' = Null
    /\ showPathDrawer' = FALSE
    /\ pathCompleted' = FALSE
    /\ isUploading' = FALSE

\* handleImageSelect(imageId), from the Select of the first card.
handleImageSelect(imageId) ==
    /\ ~DrawerShown
    /\ imageId \in DOMAIN images
    /\ selectedImageId' = imageId
    /\ pathCompleted' = images[imageId].drawnPath
    /\ selectedHadPath' = images[imageId].drawnPath
    /\ UNCHANGED <<selectedFile, showPathDrawer, isUploading, images, savePathMutation, uploadMutation, savedPaths>>
    /\ UNCHANGED <<profileVars, cacheVars, queueVars, mineVars, schemaVars, transitionVars, imageVars, usageVars, batchVars, statusVars>>

\* handleDrawPath(), from the Draw Path button (shown while !pathCompleted).
handleDrawPath ==
    /\ ~DrawerShown
    /\ selectedImageId # Null
    /\ ~pathCompleted
    /\ showPathDrawer' = TRUE
    /\ UNCHANGED <<selectedImageId, selectedFile, pathCompleted, isUploading, images, savePathMutation, uploadMutation, selectedHadPath, savedPaths>>
    /\ UNCHANGED <<profileVars, cacheVars, queueVars, mineVars, schemaVars, transitionVars, imageVars, usageVars, batchVars, statusVars>>

\* handlePathComplete(path, metadata), from the Complete button of the
\* drawer: savePathMutation.mutate({imageId: selectedImageId, ...}).
handlePathComplete ==
    /\ DrawerShown
    /\ savePathMutation' = savePathMutation \cup {selectedImageId}
    /\ UNCHANGED <<selectedImageId, selectedFile, showPathDrawer, pathCompleted, isUploading, images, uploadMutation, selectedHadPath, savedPaths>>
    /\ UNCHANGED <<profileVars, cacheVars, queueVars, mineVars, schemaVars, transitionVars, imageVars, usageVars, batchVars, statusVars>>

\* onCancel of the drawer: setShowPathDrawer(false).
onCancel ==
    /\ DrawerShown
    /\ showPathDrawer' = FALSE
    /\ UNCHANGED <<selectedImageId, selectedFile, pathCompleted, isUploading, images, savePathMutation, uploadMutation, selectedHadPath, savedPaths>>
    /\ UNCHANGED <<profileVars, cacheVars, queueVars, mineVars, schemaVars, transitionVars, imageVars, usageVars, batchVars, statusVars>>

\* The path-save request for imageId is answered 2xx: onSuccess.
SavePathSuccess(imageId) ==
    /\ imageId \in savePathMutation
    /\ savePathMutation' = savePathMutation \ {imageId}
    /\ savedPaths' = savedPaths \cup {imageId}
    /\ pathCompleted' = TRUE
    /\ showPathDrawer' = FALSE
    /\ UNCHANGED <<selectedImageId, selectedFile, isUploading, images, uploadMutation, selectedHadPath>>
    /\ UNCHANGED <<profileVars, cacheVars, queueVars, mineVars, schemaVars, transitionVars, imageVars, usageVars, batchVars, statusVars>>

\* The path-save request fails: onError only shows a toast.
SavePathError(imageId) ==
    /\ imageId \in savePathMutation
    /\ savePathMutation' = savePathMutation \ {imageId}
    /\ UNCHANGED <<selectedImageId, selectedFile, showPathDrawer, pathCompleted, isUploading, images, uploadMutation, selectedHadPath, savedPaths>>
    /\ UNCHANGED <<profileVars, cacheVars, queueVars, mineVars, schemaVars, transitionVars, imageVars, usageVars, batchVars, statusVars>>

\* The images query is fetched again (after invalidateQueries): the saved
\* paths appear in `images`.
ImagesRefetched ==
    /\ images' = [i \in DOMAIN images |-> [drawnPath |-> images[i].drawnPath \/ i \in savedPaths]]
    /\ images' # images
    /\ UNCHANGED <<selectedImageId, selectedFile, showPathDrawer, pathCompleted, isUploading, savePathMutation, uploadMutation, selectedHadPath, savedPaths>>
    /\ UNCHANGED <<profileVars, cacheVars, queueVars, mineVars, schemaVars, transitionVars, imageVars, usageVars, batchVars, statusVars>>

\* onDrop of the dropzone of the second card (rendered while pathCompleted)
\* with an .mcr file.
onDrop ==
    /\ ~DrawerShown
    /\ pathCompleted
    /\ ~selectedFile
    /\ selectedFile' = TRUE
    /\ UNCHANGED <<selectedImageId, showPathDrawer, pathCompleted, isUploading, images, savePathMutation, uploadMutation, selectedHadPath, savedPaths>>
    /\ UNCHANGED <<profileVars, cacheVars, queueVars, mineVars, schemaVars, transitionVars, imageVars, usageVars, batchVars, statusVars>>

\* handleUpload(), from the upload button (disabled while !selectedFile ||
\* !pathCompleted || isUploading): the upload request is issued for the
\* selected image.
handleUpload ==
    /\ ~DrawerShown
    /\ selectedFile /\ pathCompleted /\ ~isUploading
    /\ isUploading' = TRUE
    /\ uploadMutation' = uploadMutation \cup {selectedImageId}
    /\ UNCHANGED <<selectedImageId, selectedFile, showPathDrawer, pathCompleted, images, savePathMutation, selectedHadPath, savedPaths>>
    /\ UNCHANGED <<profileVars, cacheVars, queueVars, mineVars, schemaVars, transitionVars, imageVars, usageVars, batchVars, statusVars>>

\* The upload request is answered 2xx: onSuccess calls resetUploadState().
UploadSuccess(imageId) ==
    /\ imageId \in uploadMutation
    /\ uploadMutation' = uploadMutation \ {imageId}
    /\ resetUploadState
    /\ selectedHadPath' = FALSE
    /\ UNCHANGED <<images, savePathMutation, savedPaths>>
    /\ UNCHANGED <<profileVars, cacheVars, queueVars, mineVars, schemaVars, transitionVars, imageVars, usageVars, batchVars, statusVars>>

\* The upload request fails: onError calls setIsUploading(false).
UploadError(imageId) ==
    /\ imageId \in uploadMutation
    /\ uploadMutation' = uploadMutation \ {imageId}
    /\ isUploading' = FALSE
    /\ UNCHANGED <<selectedImageId, selectedFile, showPathDrawer, pathCompleted, images, savePathMutation, selectedHadPath, savedPaths>>
    /\ UNCHANGED <<profileVars, cacheVars, queueVars, mineVars, schemaVars, transitionVars, imageVars, usageVars, batchVars, statusVars>>

UiNext ==
    \/ \E imageId \in UiImageIds : handleImageSelect(imageId)
    \/ handleDrawPath
    \/ handlePathComplete
    \/ onCancel
    \/ \E imageId \in UiImageIds : SavePathSuccess(imageId)
    \/ \E imageId \in UiImageIds : SavePathError(imageId)
    \/ ImagesRefetched
    \/ onDrop
    \/ handleUpload
    \/ \E imageId \in UiImageIds \cup {Null} : UploadSuccess(imageId)
    \/ \E imageId \in UiImageIds \cup {Null} : UploadError(imageId)

(***************************************************************************)
(* PATTERN USAGE                                                           *)
(***************************************************************************)

\* Bound of the usage model: the calls of recordPatternUsage.
MaxUsageCalls == 4

UsageIdle ==
    /\ patternUsage = <<>>
    /\ usageCalls = <<>>

RECURSIVE Gcd(_, _)
Gcd(a, b) == IF b = 0 THEN a ELSE Gcd(b, a % b)

\* A success rate as a fraction in lowest terms (the column is a real; the
\* rates of the model are exact).
Rate(num, den) == Ratio(num \div Gcd(num, den), den \div Gcd(num, den))

\* A row of pattern_usage.
UsageRow(patternId, fileId, usageCount, successRate) ==
    [patternId |-> patternId, fileId |-> fileId, usageCount |-> usageCount,
     successRate |-> successRate]

\* db.query.patternUsage.findFirst({where: patternId}): the index of the row,
\* 0 if there is none.
ExistingUsage(patternId) ==
    IF \E i \in DOMAIN patternUsage : patternUsage[i].patternId = patternId
    THEN CHOOSE i \in DOMAIN patternUsage :
            /\ patternUsage[i].patternId = patternId
            /\ \A j \in DOMAIN patternUsage : patternUsage[j].patternId = patternId => i <= j
    ELSE 0

\* `existing.successRate || 1.0`: a rate of 0 is falsy.
CurrentSuccess(successRate) ==
    IF successRate.num = 0 THEN Rate(1, 1) ELSE successRate

\* (currentSuccess * (newUsageCount - 1) + (success ? 1 : 0)) / newUsageCount
NewSuccessRate(currentSuccess, newUsageCount, success) ==
    Rate(currentSuccess.num * (newUsageCount - 1) + (IF success THEN 1 ELSE 0) * currentSuccess.den,
         currentSuccess.den * newUsageCount)

\* recordPatternUsage(patternId, fileId, success): the update or the insert,
\* then cacheService.incrementPatternUsage(patternId).
recordPatternUsage(patternId, fileId, success) ==
    /\ Len(usageCalls) < MaxUsageCalls
    /\ LET i == ExistingUsage(patternId)
       IN  IF i # 0
           THEN LET existing == patternUsage[i]
                    newUsageCount == existing.usageCount + 1
                    currentSuccess == CurrentSuccess(existing.successRate)
                IN  patternUsage' = [patternUsage EXCEPT ![i] =
                        UsageRow(existing.patternId, existing.fileId, newUsageCount,
                                 NewSuccessRate(currentSuccess, newUsageCount, success))]
           ELSE patternUsage' = Append(patternUsage,
                    UsageRow(patternId, fileId, 1, IF success THEN Rate(1, 1) ELSE Rate(0, 1)))
    /\ usageCalls' = Append(usageCalls, [patternId |-> patternId, success |-> success])
    /\ LET r == Guarded(Returns("stored", store.usage[patternId] + 1), Returns(Null, 0))
       IN  store' = IF r.value = "stored" THEN [store EXCEPT !.usage[patternId] = @ + 1] ELSE store
    /\ UNCHANGED <<redis, enabled, backend, cacheResult>>
    /\ UNCHANGED <<profileVars, queueVars, mineVars, schemaVars, transitionVars, imageVars, uiVars, batchVars, statusVars>>

RecordPatternUsage ==
    \E patternId \in PatternIds, fileId \in FileHashes, success \in BOOLEAN :
        recordPatternUsage(patternId, fileId, success)

UsageNext ==
    \/ RecordPatternUsage
    \/ RedisConnect
    \/ RedisError
    \/ ConnectRejected
    \/ BackendChanges

\* The calls made for a pattern, and those of them with success = true.
CallsFor(patternId) ==
    {k \in DOMAIN usageCalls : usageCalls[k].patternId = patternId}
SuccessesFor(patternId) ==
    {k \in CallsFor(patternId) : usageCalls[k].success}

(***************************************************************************)
(* BATCH ROUTE                                                             *)
(***************************************************************************)

\* Bounds of the batch model: the ids a request may name (the last one is
\* the id of no row), and the payloads handed to the queues.
MaxBatchFiles == 2
MaxBatchIds == 3
MaxEnqueued == 4

\* The 'Novice User' profile of createDefaultProfiles.
NoviceBody == ProfileBody("slow", Ratio(6, 10), 50, 8, 35, 1)

\* The settings a file was uploaded with: the defaults of the settings
\* schema, or the settings of the 'Average User' profile.
UploadSettings ==
    {[delayVariation |-> 10, typingErrors |-> 1, hesitationPauses |-> 5,
      timeExtensionFactor |-> 1],
     AverageBody.settings}

\* A row of mcr_files.
McrFile(id, humanizationSettings) ==
    [id |-> id, humanizationSettings |-> humanizationSettings]

NoBatchRequest ==
    [fileIds |-> <<>>, profileId |-> 0, learnPatterns |-> FALSE, status |-> 0,
     jobs |-> <<>>]

BatchIdle ==
    /\ mcrFiles = <<>>
    /\ enqueued = <<>>
    /\ batchRequest = NoBatchRequest

\* The tables when requests arrive: two profiles of createDefaultProfiles
\* and the uploaded files.
BatchInit ==
    /\ profiles = (1 :> [name |-> "Novice User", isDefault |-> FALSE, body |-> NoviceBody])
                  @@ (2 :> [name |-> "Average User", isDefault |-> TRUE, body |-> AverageBody])
    /\ nextProfileId = 3
    /\ calls = [c \in CallSlots |-> NoCall]
    /\ returned = NoReturn
    /\ mcrFiles \in {[id \in 1..MaxBatchFiles |-> McrFile(id, settings[id])] : settings \in [1..MaxBatchFiles -> UploadSettings]}
    /\ enqueued = <<>>
    /\ batchRequest = NoBatchRequest

\* addProcessingJob(file): processingQueue.add('process-mcr', data).
ProcessingJobData(file) ==
    [queue |-> "mcr-processing", fileId |-> file.id, file |-> file,
     settings |-> file.humanizationSettings, fileIds |-> <<>>]

\* addPatternMiningJob(fileIds): patternMiningQueue.add('mine-patterns', data).
PatternMiningJobData(fileIds) ==
    [queue |-> "pattern-mining", fileId |-> 0, file |-> McrFile(0, NoBody.settings),
     settings |-> NoBody.settings, fileIds |-> fileIds]

\* storage.updateMcrFile(fileId, {humanizationSettings}) on the table.
updateMcrFile(table, fileId, humanizationSettings) ==
    [table EXCEPT ![fileId].humanizationSettings = humanizationSettings]

\* The loop of the route over fileIds[i..]: the table and the payloads after
\* it. `file` is the row read by getMcrFile before the row is updated.
RECURSIVE BatchLoop(_, _, _, _, _)
BatchLoop(table, queued, fileIds, i, profileId) ==
    IF i > Len(fileIds) THEN [mcrFiles |-> table, enqueued |-> queued]
    ELSE LET fileId == fileIds[i]
         IN  IF fileId \notin DOMAIN table
             THEN BatchLoop(table, queued, fileIds, i + 1, profileId)
             ELSE LET file == table[fileId]
                      updated == IF profileId # 0
                                 THEN updateMcrFile(table, fileId, profiles[profileId].body.settings)
                                 ELSE table
                  IN  BatchLoop(updated, Append(queued, ProcessingJobData(file)), fileIds, i + 1, profileId)

\* POST /api/batch/process with body {fileIds, profileId, learnPatterns};
\* profileId 0 is a body without profileId.
PostBatchProcess(fileIds, profileId, learnPatterns) ==
    /\ Len(enqueued) + Len(fileIds) + 1 <= MaxEnqueued
    /\ IF Len(fileIds) = 0
       THEN /\ batchRequest' = [fileIds |-> fileIds, profileId |-> profileId, learnPatterns |-> learnPatterns, status |-> 400, jobs |-> <<>>]
            /\ UNCHANGED <<mcrFiles, enqueued>>
       ELSE IF profileId # 0 /\ profileId \notin DOMAIN profiles
       THEN /\ batchRequest' = [fileIds |-> fileIds, profileId |-> profileId, learnPatterns |-> learnPatterns, status |-> 404, jobs |-> <<>>]
            /\ UNCHANGED <<mcrFiles, enqueued>>
       ELSE LET after == BatchLoop(mcrFiles, enqueued, fileIds, 1, profileId)
                jobIds == {k \in 1..Len(after.enqueued) : k > Len(enqueued)}
            IN  /\ mcrFiles' = after.mcrFiles
                /\ enqueued' = IF learnPatterns /\ Len(fileIds) >= 2
                               THEN Append(after.enqueued, PatternMiningJobData(fileIds))
                               ELSE after.enqueued
                /\ batchRequest' = [fileIds |-> fileIds, profileId |-> profileId, learnPatterns |-> learnPatterns, status |-> 200,
                                    jobs |-> [k \in 1..Cardinality(jobIds) |-> Len(enqueued) + k]]
    /\ UNCHANGED <<profileVars, cacheVars, queueVars, mineVars, schemaVars, transitionVars, imageVars, uiVars, usageVars, statusVars>>

BatchNext ==
    \E fileIds \in SeqsUpTo(1..MaxBatchIds, 2), profileId \in 0..MaxBatchIds, learnPatterns \in BOOLEAN :
        PostBatchProcess(fileIds, profileId, learnPatterns)

(***************************************************************************)
(* JOB STATUS                                                              *)
(***************************************************************************)

NoJobStatus ==
    [called |-> FALSE, queue |-> None, jobId |-> 0, exists |-> FALSE,
     null |-> FALSE, state |-> None]

StatusIdle == jobStatus = NoJobStatus

\* getJobStatus(jobId), called with the id that an add call on queue q
\* returned: the job is looked up in processingQueue, whatever queue the id
\* came from. `exists` tells whether the job of q is still kept.
getJobStatus(q, jobId) ==
    LET job == IF jobId \in DOMAIN jobs["mcr-processing"]
               THEN jobs["mcr-processing"][jobId].state ELSE Null
    IN  /\ jobId \in 1..(nextJobId[q] - 1)
        /\ jobStatus' = [called |-> TRUE, queue |-> q, jobId |-> jobId,
                         exists |-> (jobId \in DOMAIN jobs[q]),
                         null |-> (job = Null),
                         state |-> IF job = Null THEN None ELSE job]
        /\ UNCHANGED queueVars
        /\ UNCHANGED <<profileVars, cacheVars, mineVars, schemaVars, transitionVars, imageVars, uiVars, usageVars, batchVars>>

GetJobStatus == \E q \in Queues, jobId \in JobIds : getJobStatus(q, jobId)

StatusNext ==
    \/ QueueNext
    \/ GetJobStatus

(***************************************************************************)
(* SPECIFICATIONS                                                          *)
(***************************************************************************)

\* The profile service with one call at a time, and with MaxCalls callers.
ProfileSeqNext == ProfileStep(1)
ProfileNext == \E c \in CallSlots : ProfileStep(c)

ProfileStart ==
    ProfileInit /\ CacheIdle /\ QueueIdle /\ MineIdle /\ SchemaIdle /\ TransitionIdle
      /\ ImageIdle /\ UiIdle /\ UsageIdle /\ BatchIdle /\ StatusIdle

ProfileSeqSpec == ProfileStart /\ [][ProfileSeqNext]_vars

\* The profile endpoints, one request at a time.
ProfileEndpointNext == ProfileEndpointStep(1)

ProfileEndpointSpec == ProfileStart /\ [][ProfileEndpointNext]_vars

ProfileSpec == ProfileStart /\ [][ProfileNext]_vars

CacheStart ==
    ProfileIdle /\ CacheInit /\ QueueIdle /\ MineIdle /\ SchemaIdle /\ TransitionIdle
      /\ ImageIdle /\ UiIdle /\ UsageIdle /\ BatchIdle /\ StatusIdle

CacheSpec == CacheStart /\ [][CacheNext]_vars

MineStart ==
    ProfileIdle /\ CacheIdle /\ QueueIdle /\ MineInit /\ SchemaIdle /\ TransitionIdle
      /\ ImageIdle /\ UiIdle /\ UsageIdle /\ BatchIdle /\ StatusIdle

MineSpec == MineStart /\ [][MineNext]_vars

\* Mining, and the same request once more.
RemineSpec == MineStart /\ [][RemineNext]_vars

\* Mining, and updates of the stored patterns.
PatternStoreSpec == MineStart /\ [][PatternStoreNext]_vars

\* Mining over files whose commands differ in one field only.
GroupStart ==
    ProfileIdle /\ CacheIdle /\ QueueIdle /\ GroupInit /\ SchemaIdle /\ TransitionIdle
      /\ ImageIdle /\ UiIdle /\ UsageIdle /\ BatchIdle /\ StatusIdle

GroupSpec == GroupStart /\ [][MineNext]_vars

QueueStart ==
    ProfileIdle /\ CacheIdle /\ QueueInit /\ MineIdle /\ SchemaIdle /\ TransitionIdle
      /\ ImageIdle /\ UiIdle /\ UsageIdle /\ BatchIdle /\ StatusIdle

QueueSpec == QueueStart /\ [][QueueNext]_vars

\* The workers are fair: a worker that can take a job does, a handler that
\* runs ends, a backoff delay passes.
QueueFairness ==
    \A q \in Queues :
       /\ WF_vars(Dequeue(q))
       /\ \A id \in JobIds :
             /\ WF_vars(HandlerSucceeds(q, id) \/ HandlerThrows(q, id))
             /\ WF_vars(Promote(q, id))

QueueLiveSpec ==
    /\ QueueStart
    /\ [][QueueRunNext]_vars
    /\ QueueFairness

\* The transition table of a list of files, and a prediction made from it.
TransitionStart ==
    ProfileIdle /\ CacheIdle /\ QueueIdle /\ SchemaIdle /\ TransitionInit
      /\ ImageIdle /\ UiIdle /\ UsageIdle /\ BatchIdle /\ StatusIdle

TransitionSpec == TransitionStart /\ [][TransitionNext]_vars

\* The image service with its cache, one call at a time.
ImageStart ==
    /\ ProfileIdle /\ CacheInit /\ QueueIdle /\ MineIdle /\ SchemaIdle /\ TransitionIdle
    /\ ImageIdle /\ UiIdle /\ UsageIdle /\ BatchIdle /\ StatusIdle

ImageSpec == ImageStart /\ [][ImageNext]_vars

\* generateMCRFromImage over one completed analysis of any layout.
McrStart ==
    /\ ProfileIdle /\ CacheIdle /\ QueueIdle /\ MineIdle /\ SchemaIdle /\ TransitionIdle
    /\ McrInit /\ UiIdle /\ UsageIdle /\ BatchIdle /\ StatusIdle

McrSpec == McrStart /\ [][McrNext]_vars

\* The functions of the shared schema, each applied to one input.
BatchStart ==
    /\ BatchInit
    /\ CacheIdle /\ QueueIdle /\ MineIdle /\ SchemaIdle /\ TransitionIdle
    /\ ImageIdle /\ UiIdle /\ UsageIdle /\ StatusIdle

BatchSpec == BatchStart /\ [][BatchNext]_vars

UiStart ==
    /\ UiInit
    /\ ProfileIdle /\ CacheIdle /\ QueueIdle /\ MineIdle /\ SchemaIdle /\ TransitionIdle
    /\ ImageIdle /\ UsageIdle /\ BatchIdle /\ StatusIdle

UiSpec == UiStart /\ [][UiNext]_vars

AdjustStart ==
    /\ AdjustInit
    /\ ProfileIdle /\ CacheIdle /\ QueueIdle /\ MineIdle /\ TransitionIdle
    /\ ImageIdle /\ UiIdle /\ UsageIdle /\ BatchIdle /\ StatusIdle

AdjustSpec == AdjustStart /\ [][AdjustNext]_vars

UsageStart ==
    /\ CacheInit /\ UsageIdle
    /\ ProfileIdle /\ QueueIdle /\ MineIdle /\ SchemaIdle /\ TransitionIdle
    /\ ImageIdle /\ UiIdle /\ BatchIdle /\ StatusIdle

UsageSpec == UsageStart /\ [][UsageNext]_vars

StatusSpec == QueueStart /\ [][StatusNext]_vars

SchemaStart ==
    ProfileIdle /\ CacheIdle /\ QueueIdle /\ MineIdle /\ SchemaInit /\ TransitionIdle
      /\ ImageIdle /\ UiIdle /\ UsageIdle /\ BatchIdle /\ StatusIdle

SchemaSpec == SchemaStart /\ [][SchemaNext]_vars

(***************************************************************************)
(* PROPERTIES                                                              *)
(***************************************************************************)

\* C1 (as claimed; fails): once createProfile or updateProfile with
\* isDefault = true has returned, whatever it returned (a row, null, or a
\* rejected insert), exactly one stored profile has isDefault = true.
DefaultProfileInvariant ==
    (returned.op \in {"createProfile", "updateProfile"} /\ returned.isDefault = "true")
       => Cardinality(DefaultIds) = 1

\* C2 (as claimed; fails): with callers interleaved statement by statement,
\* at most one stored profile has isDefault = true in every state.
AtMostOneDefault == Cardinality(DefaultIds) <= 1

CacheReads ==
    {"getCachedCommands", "getCachedPatternAnalysis", "getCachedImageAnalysis",
     "getPatternUsageCount"}
CacheWrites ==
    {"cacheCommands", "cachePatternAnalysis", "cacheImageAnalysis",
     "incrementPatternUsage"}

\* C3: a cache read or write made while the backend is unavailable (no handle,
\* not enabled, or the backend failing the call) does not raise, leaves what
\* the backend stores unchanged, and returns a miss (null, or 0 for a count).
CacheFailsOpen ==
    (/\ cacheResult.op \in CacheReads \cup CacheWrites
     /\ cacheResult.disabled \/ cacheResult.down)
       => /\ ~cacheResult.raised
          /\ ~cacheResult.changed
          /\ cacheResult.count = 0
          /\ cacheResult.op \in CacheReads => cacheResult.value = Null

\* C3's case: getCachedCommands, with every file's commands cached, made while
\* the service is enabled and the backend is down: a miss.
CacheFailsOpenWitness ==
    /\ cacheResult.op = "getCachedCommands"
    /\ cacheResult.down /\ ~cacheResult.disabled
    /\ \A h \in FileHashes : store.data[CommandsKey(h)] # Null
    /\ cacheResult.value = Null /\ ~cacheResult.raised

\* C4 (as claimed; fails): invalidateFileCache and clearAllCache made while the
\* handle is null or the backend fails the call do not raise and change nothing.
CacheMaintenanceFailsOpen ==
    (/\ cacheResult.op \in {"invalidateFileCache", "clearAllCache"}
     /\ cacheResult.noHandle \/ cacheResult.down)
       => ~cacheResult.raised /\ ~cacheResult.changed

Ended == {"completed", "failed"}

\* The step of one job from state `old` to state `new`, its failed attempts
\* counted by attemptsMade, under a budget of `budget` handler invocations.
LifecycleStep(old, new, budget) ==
    /\ old.state = "waiting" => new.state \in {"waiting", "active"}
    /\ old.state = "delayed" => new.state \in {"delayed", "waiting"}
    /\ old.state = "active" =>
          new.state \in {"active", "completed", "failed", "waiting", "delayed"}
    /\ (old.state = "active" /\ new.state \in {"waiting", "delayed"}) =>
          new.attemptsMade < budget
    /\ (old.state = "active" /\ new.state = "failed") => new.attemptsMade = budget
    /\ old.state \in Ended => new = old
    /\ new.state = "active" => new.attemptsMade + 1 <= budget
    /\ new.attemptsMade >= old.attemptsMade

\* C5: a job goes queued (waiting, or delayed by its backoff) -> active ->
\* completed or failed; a failed attempt puts it back in the queue only while
\* fewer than its budget of attempts (3 for processing, 2 for image analysis
\* and pattern mining) are used up, the attempt that uses up the budget makes
\* it failed, and a completed or failed job never changes again.
JobLifecycle ==
    [][\A q \in Queues : \A id \in DOMAIN jobs[q] :
          id \in DOMAIN jobs'[q] =>
             LifecycleStep(jobs[q][id], jobs'[q][id], Attempts(q))]_vars

\* C5's case: a processing job failed for good after its third attempt, and
\* another one completed.
JobLifecycleWitness ==
    /\ \E id \in DOMAIN jobs["mcr-processing"] :
          /\ jobs["mcr-processing"][id].state = "failed"
          /\ jobs["mcr-processing"][id].attemptsMade = ProcessingAttempts
    /\ JobsIn("mcr-processing", "completed") # {}

WorkersStarted == workers["mcr-processing"] > 0

\* C6 (as claimed; fails): once startWorkers has run, every job of every queue
\* eventually is completed or failed.
EveryJobEventuallyEnds ==
    \A q \in Queues : \A id \in JobIds :
       (WorkersStarted /\ id \in DOMAIN jobs[q])
          ~> (id \in DOMAIN jobs[q] /\ jobs[q][id].state \in Ended)

\* What does hold of the queue that has a worker: every processing job
\* eventually is completed or failed.
ProcessingJobsEventuallyEnd ==
    \A id \in JobIds :
       (WorkersStarted /\ id \in DOMAIN jobs["mcr-processing"])
          ~> (/\ id \in DOMAIN jobs["mcr-processing"]
              /\ jobs["mcr-processing"][id].state \in Ended)

PauseStopsDequeue ==
    /\ [][paused["mcr-processing"] =>
            \A q \in Queues : \A id \in DOMAIN jobs[q] :
               ~(/\ jobs[q][id].state = "waiting"
                 /\ id \in DOMAIN jobs'[q]
                 /\ jobs'[q][id].state = "active")]_vars
    /\ [](\A id \in JobsIn("mcr-processing", "active") :
             /\ ENABLED HandlerSucceeds("mcr-processing", id)
             /\ ENABLED HandlerThrows("mcr-processing", id))
    /\ []((/\ ~paused["mcr-processing"]
           /\ WorkersStarted
           /\ JobsIn("mcr-processing", "waiting") # {}
           /\ Cardinality(JobsIn("mcr-processing", "active")) < Concurrency)
             => ENABLED Dequeue("mcr-processing"))

\* C8's case: the queue is paused while one job waits and another is active.
PauseStopsDequeueWitness ==
    /\ paused["mcr-processing"]
    /\ WorkersStarted
    /\ JobsIn("mcr-processing", "waiting") # {}
    /\ JobsIn("mcr-processing", "active") # {}

\* C9 (as claimed; fails): right after clearCompletedJobs the processing queue
\* holds no completed and no failed job.
ClearLeavesNoEndedJob ==
    [][clearCompletedJobs =>
         \A id \in DOMAIN jobs'["mcr-processing"] :
            jobs'["mcr-processing"][id].state \notin Ended]_vars

\* C9 (amended): right after clearCompletedJobs the processing queue, if it
\* held at most 1000 completed jobs, holds none; every other job of it
\* (failed, waiting, delayed, active) and every job of the other queues is
\* as it was.
ClearRemovesCompletedOnly ==
    [][(clearCompletedJobs
          /\ Cardinality(JobsIn("mcr-processing", "completed")) <= CleanLimit)
         => /\ \A id \in DOMAIN jobs'["mcr-processing"] :
                  jobs'["mcr-processing"][id].state # "completed"
            /\ \A q \in Queues : \A id \in DOMAIN jobs[q] :
                  (q # "mcr-processing" \/ jobs[q][id].state # "completed")
                     => id \in DOMAIN jobs'[q] /\ jobs'[q][id] = jobs[q][id]]_vars

\* C9's case: a record of the processing queue is gone (only clearing removes
\* one) and a failed job is still there.
ClearRemovesCompletedOnlyWitness ==
    /\ Cardinality(DOMAIN jobs["mcr-processing"]) < nextJobId["mcr-processing"] - 1
    /\ JobsIn("mcr-processing", "failed") # {}

\* C10: every row the mining call saved has a frequency of at least the
\* minFrequency of the call and a confidence between 0 and 1.
PersistedPatternsBounded ==
    mined.called =>
       \A k \in 1..Len(mined.saved) :
          /\ mined.saved[k].frequency >= mined.minFrequency
          /\ mined.saved[k].confidence.den > 0
          /\ LessEq(Ratio(0, 1), mined.saved[k].confidence)
          /\ LessEq(mined.saved[k].confidence, Ratio(1, 1))

\* C10's case: a saved pattern that occurs more often than twice the number
\* of file ids, so that its confidence is cut down to 1.
PersistedPatternsBoundedWitness ==
    /\ mined.called
    /\ \E k \in 1..Len(mined.saved) :
          /\ mined.saved[k].frequency > 2 * Len(mined.fileIds)
          /\ mined.saved[k].confidence = Ratio(1, 1)
    /\ \E k \in 1..Len(mined.saved) :
          mined.saved[k].frequency < 2 * Len(mined.fileIds)

\* The candidate windows of a mining call: the file's place in allCommands,
\* the window length and the offset.
Windows(allCommands, minLength) ==
    UNION {LET n == Len(allCommands[k].commands)
           IN  UNION {{<<k, len, i>> : i \in 0..(n - len)} :
                         len \in minLength..Min(n, MaxWindow)} :
             k \in 1..Len(allCommands)}

WindowAt(allCommands, w) ==
    SubSeq(allCommands[w[1]].commands, w[3] + 1, w[3] + w[2])

\* Same length and, place by place, the same type, action and key.
CanonicallyEqual(seq1, seq2) ==
    /\ Len(seq1) = Len(seq2)
    /\ \A p \in 1..Len(seq1) :
          /\ seq1[p].type = seq2[p].type
          /\ seq1[p].action = seq2[p].action
          /\ seq1[p].key = seq2[p].key

\* The windows counted with `sequence` if grouping follows canonical equality.
ClassOf(allCommands, minLength, sequence) ==
    {w \in Windows(allCommands, minLength) :
        CanonicallyEqual(WindowAt(allCommands, w), sequence)}

\* C11: the groups of findFrequentSequences are the classes of canonical
\* equality: the frequency of every saved pattern is the number of candidate
\* windows of the same length that agree with it on type, action and key at
\* every place (whatever their delay, x, y and text), no two saved patterns
\* are canonically equal, and every window whose class reaches minFrequency
\* is in a saved pattern's class.
GroupsAreCanonicalClasses ==
    (mined.called /\ ~mined.raised) =>
       LET all == AllCommands(mined.fileIds)
           L == mined.minSequenceLength
           saved == mined.saved
       IN  /\ \A k \in 1..Len(saved) :
                 saved[k].frequency
                    = Cardinality(ClassOf(all, L, saved[k].commandSequence))
           /\ \A j, k \in 1..Len(saved) :
                 j # k => ~CanonicallyEqual(saved[j].commandSequence,
                                            saved[k].commandSequence)
           /\ \A w \in Windows(all, L) :
                 Cardinality(ClassOf(all, L, WindowAt(all, w))) >= mined.minFrequency
                    => \E k \in 1..Len(saved) :
                          CanonicallyEqual(saved[k].commandSequence, WindowAt(all, w))

\* C11's case: a saved pattern counts two windows that differ in a delay,
\* and two saved patterns of the same length differ in a key only.
GroupsAreCanonicalClassesWitness ==
    /\ mined.called
    /\ \E k \in 1..Len(mined.saved) :
          LET all == AllCommands(mined.fileIds)
              class == ClassOf(all, mined.minSequenceLength,
                               mined.saved[k].commandSequence)
          IN  \E v, w \in class :
                 \E p \in 1..Len(WindowAt(all, v)) :
                    WindowAt(all, v)[p].delay # WindowAt(all, w)[p].delay
    /\ \E j, k \in 1..Len(mined.saved) :
          LET a == mined.saved[j].commandSequence
              b == mined.saved[k].commandSequence
          IN  /\ Len(a) = Len(b)
              /\ \E p \in 1..Len(a) :
                    /\ a[p].key # b[p].key
                    /\ a[p].type = b[p].type
                    /\ a[p].action = b[p].action

FewSequencesYieldNothing ==
    (mined.called /\ ~ReadFails(mined.fileIds)) =>
       /\ Len(AllCommands(mined.fileIds)) <= 1
             => (~mined.raised /\ mined.saved = <<>>)
       /\ \A k \in 1..Len(mined.saved) :
             \A f \in mined.saved[k].sourceFileIds :
                Len(files[f].commands) >= mined.minSequenceLength

\* The files of the list that can be obtained, in the order of the list.
RECURSIVE Obtainable(_)
Obtainable(fileIds) ==
    IF fileIds = <<>> THEN <<>>
    ELSE IF files[Head(fileIds)].status = "ok"
         THEN <<[fileId |-> Head(fileIds), commands |-> files[Head(fileIds)].commands]>>
                 \o Obtainable(Tail(fileIds))
         ELSE Obtainable(Tail(fileIds))

\* C14 (fails): a mining call over two or more file ids does not abort because a file of the list has
\* no record or cannot be read or parsed: it raises nothing, and every
\* window of the remaining files whose class reaches minFrequency is saved.
UnobtainableFilesAreSkipped ==
    (mined.called /\ Len(mined.fileIds) >= 2) =>
       /\ ~mined.raised
       /\ LET rest == Obtainable(mined.fileIds)
          IN  \A w \in Windows(rest, mined.minSequenceLength) :
                 Cardinality(ClassOf(rest, mined.minSequenceLength, WindowAt(rest, w)))
                       >= mined.minFrequency
                    => \E k \in 1..Len(mined.saved) :
                          CanonicallyEqual(mined.saved[k].commandSequence,
                                           WindowAt(rest, w))

\* The part of C14 that holds: a file without a record is skipped.
MissingFilesAreSkipped ==
    (mined.called /\ Len(mined.fileIds) >= 2 /\ ~ReadFails(mined.fileIds)) =>
       /\ ~mined.raised
       /\ LET rest == Obtainable(mined.fileIds)
          IN  \A w \in Windows(rest, mined.minSequenceLength) :
                 Cardinality(ClassOf(rest, mined.minSequenceLength, WindowAt(rest, w)))
                       >= mined.minFrequency
                    => \E k \in 1..Len(mined.saved) :
                          CanonicallyEqual(mined.saved[k].commandSequence,
                                           WindowAt(rest, w))

\* C15 (fails): isCommandEqual is true exactly when the two commands have
\* the same type, the same action and the same key.
CommandEqualityIsCanonical ==
    response.op = "isCommandEqual" =>
       (response.result
          <=> /\ request.cmd1.type = request.cmd2.type
              /\ request.cmd1.action = request.cmd2.action
              /\ request.cmd1.key = request.cmd2.key)

\* The part of C15 that holds: x, y, delay and text never change the result.
CommandEqualityIgnoresPayload ==
    response.op = "isCommandEqual" =>
       \A a, b \in EqualPool :
          (/\ a.type = request.cmd1.type /\ a.action = request.cmd1.action
           /\ a.key = request.cmd1.key
           /\ b.type = request.cmd2.type /\ b.action = request.cmd2.action
           /\ b.key = request.cmd2.key)
             => isCommandEqual(a, b) = response.result

\* C18 (fails): a settings object that humanizationSettingsSchema accepts has
\* minDelay <= maxDelay, one with minDelay > maxDelay is rejected.
AcceptedSettingsHaveOrderedDelays ==
    response.op = "humanizationSettingsSchema" =>
       /\ response.success => response.data.minDelay <= response.data.maxDelay
       /\ response.data.minDelay > response.data.maxDelay => ~response.success

\* The count the table holds for the edge from a to b, 0 when it has none.
TableCount(table, a, b) ==
    LET k == EntryIndex(table, a)
        e == IF k = 0 THEN 0 ELSE EdgeIndex(table[k].edges, b)
    IN  IF e = 0 THEN 0 ELSE table[k].edges[e].count

\* The places of one sequence where a command of state a is followed by a
\* command of state b, and their number over a list of sequences.
PairsIn(commands, a, b) ==
    Cardinality({i \in 1..(Len(commands) - 1) :
                    StateKey(commands[i]) = a /\ StateKey(commands[i + 1]) = b})

RECURSIVE PairsInAll(_, _, _)
PairsInAll(sequences, a, b) ==
    IF sequences = <<>> THEN 0
    ELSE PairsIn(Head(sequences), a, b) + PairsInAll(Tail(sequences), a, b)

StateKeys == {StateKey(cmd) : cmd \in TransitionPool}

\* Every key of the table is a state key, once.
TableKeysAreStateKeys(table) ==
    /\ \A k \in 1..Len(table) :
          /\ table[k].from \in StateKeys
          /\ \A j \in 1..Len(table) : table[j].from = table[k].from => j = k
          /\ \A e \in 1..Len(table[k].edges) :
                /\ table[k].edges[e].next \in StateKeys
                /\ table[k].edges[e].count >= 1
                /\ \A d \in 1..Len(table[k].edges) :
                      table[k].edges[d].next = table[k].edges[e].next => d = e

\* C17: while analyzeCommandTransitions runs and when it has returned, the
\* table holds for every pair of state keys (a, b) exactly the number of
\* places, inside one of the sequences analysed so far, where a command of
\* state a is directly followed by one of state b (nothing is counted from
\* the end of one sequence to the start of the next), and no count ever
\* goes down while the run goes on.
TransitionCountsAreExact ==
    /\ [](analysis.pc \in {"running", "done"} =>
            /\ TableKeysAreStateKeys(transitions)
            /\ \A a, b \in StateKeys :
                  TableCount(transitions, a, b) = PairsInAll(analysis.done, a, b))
    /\ [][analysis.pc = "running" =>
            \A a, b \in StateKeys :
               TableCount(transitions', a, b) >= TableCount(transitions, a, b)]_vars

\* C17's case: the table of two sequences has been returned, an edge was
\* counted twice, and the last command of the first sequence followed by
\* the first command of the second is not an edge.
TransitionCountsAreExactWitness ==
    /\ analysis.pc = "done"
    /\ Len(analysis.done) = 2
    /\ Len(analysis.done[1]) >= 2
    /\ Len(analysis.done[2]) >= 2
    /\ \E a, b \in StateKeys : TableCount(transitions, a, b) >= 2
    /\ TableCount(transitions,
                  StateKey(analysis.done[1][Len(analysis.done[1])]),
                  StateKey(analysis.done[2][1])) = 0

\* The outgoing edges of the state of the last command of the history, and
\* the place among them of the first edge with the highest count.
OutgoingEdges ==
    IF prediction.previousCommands = <<>> THEN <<>>
    ELSE NextOptions(transitions,
            prediction.previousCommands[Len(prediction.previousCommands)])

FirstHighest(edges) ==
    CHOOSE e \in 1..Len(edges) :
       \A d \in 1..Len(edges) :
          /\ edges[d].count <= edges[e].count
          /\ edges[d].count = edges[e].count => e <= d

\* C16 (fails): getPredictedNextCommand returns none when the history is
\* empty or the state of its last command has no outgoing edge; otherwise
\* it returns a command whose state key is the successor key with the
\* highest count, the first inserted one among equals.
PredictionIsBestSuccessor ==
    prediction.called =>
       IF OutgoingEdges = <<>> THEN prediction.isNull
       ELSE /\ ~prediction.isNull
            /\ StateKey(prediction.command)
                  = OutgoingEdges[FirstHighest(OutgoingEdges)].next

\* The part of C16 that holds: the same, when the best successor's key holds
\* no colon of its own.
PredictionIsBestColonFreeSuccessor ==
    prediction.called =>
       IF OutgoingEdges = <<>> THEN prediction.isNull
       ELSE /\ ~prediction.isNull
            /\ LET best == OutgoingEdges[FirstHighest(OutgoingEdges)].next
               IN  Len(best) = 3 /\ best[3] # ":"
                      => StateKey(prediction.command) = best

BodyInRange(body) ==
    /\ body.typingSpeed \in {"slow", "medium", "fast"}
    /\ LessEq(Ratio(0, 1), body.mouseAccuracy)
    /\ LessEq(body.mouseAccuracy, Ratio(1, 1))
    /\ body.settings.delayVariation \in 1..100
    /\ body.settings.typingErrors \in 0..10
    /\ body.settings.hesitationPauses \in 0..50
    /\ body.settings.timeExtensionFactor \in 1..5

\* C19 (fails): no stored profile holds a value out of its range, and a
\* create or update through the endpoints that carries one is rejected and
\* leaves the table as it was.
StoredProfilesAreInRange ==
    /\ [](\A i \in DOMAIN profiles : BodyInRange(profiles[i].body))
    /\ [][\A c \in CallSlots :
            ((InsertProfile(c) \/ UpdateProfileRow(c))
               /\ calls[c].body # NoBody /\ ~BodyInRange(calls[c].body))
              => (profiles' = profiles /\ returned'.outcome = "rejected")]_vars

\* C21 (fails): every delay command generateMCRFromImage emits has a value
\* within 50..500 ms, whatever the step kind.
GeneratedDelaysInRange ==
    \A k \in DelaysIn(generated.commands) :
       /\ 50 <= generated.commands[k].delay
       /\ generated.commands[k].delay <= 500

\* What does hold: every delay is within 30..500 ms, and only the delay
\* after a keyup is below 50.
GeneratedDelaysAbove30 ==
    \A k \in DelaysIn(generated.commands) :
       /\ 30 <= generated.commands[k].delay
       /\ generated.commands[k].delay <= 500
       /\ generated.commands[k].delay < 50 =>
             /\ k > 1
             /\ generated.commands[k - 1].type = "keyboard"
             /\ generated.commands[k - 1].action = "keyup"

\* The place in the generated commands of the Move to the centre of element e.
VisitIndex(e) ==
    LET moves == {k \in DOMAIN generated.commands :
                    /\ generated.commands[k].action = "Move"
                    /\ generated.commands[k].x = RoundHalf(2 * e.bounds.x + e.bounds.width)
                    /\ generated.commands[k].y = RoundHalf(2 * e.bounds.y + e.bounds.height)}
    IN  CHOOSE k \in moves : \A j \in moves : k <= j

\* Element a is to be visited before element b.
VisitedBefore(a, b) ==
    IF Abs(a.bounds.y - b.bounds.y) < 50
    THEN a.bounds.x < b.bounds.x
    ELSE a.bounds.y < b.bounds.y

\* C22 (fails): in the commands of generateMCRFromImage, of two detected
\* elements whose y differ by less than 50 the one with the smaller x is
\* visited first, and of two others the one with the smaller y.
ElementsVisitedInReadingOrder ==
    (generated.called /\ ~generated.raised) =>
       \A i, j \in DOMAIN generated.elements :
          VisitedBefore(generated.elements[i], generated.elements[j])
             => VisitIndex(generated.elements[i]) < VisitIndex(generated.elements[j])

\* What does hold: the order is the reading order whenever the comparator
\* is consistent on the elements, that is when no rows overlap in a chain
\* that the comparator orders in a cycle.
ConsistentElementsVisitedInReadingOrder ==
    (generated.called /\ ~generated.raised /\ Consistent(generated.elements)) =>
       \A i, j \in DOMAIN generated.elements :
          VisitedBefore(generated.elements[i], generated.elements[j])
             => VisitIndex(generated.elements[i]) < VisitIndex(generated.elements[j])

\* C23 (fails): when POST /api/batch/process is answered 200 for a request
\* with a profileId, every processing job it enqueued carries the settings
\* of that profile, in data.settings and in data.file.humanizationSettings.
BatchJobsCarryProfileSettings ==
    [][(batchRequest' # batchRequest /\ batchRequest'.status = 200 /\ batchRequest'.profileId # 0)
        => \A k \in DOMAIN batchRequest'.jobs :
              LET data == enqueued'[batchRequest'.jobs[k]]
              IN  /\ data.settings = profiles[batchRequest'.profileId].body.settings
                  /\ data.file.humanizationSettings = profiles[batchRequest'.profileId].body.settings]_vars

\* What holds instead: the first job of a file carries the settings the file
\* had when the request arrived, and only the row of mcr_files has those of
\* the profile.
BatchJobsCarryStoredSettings ==
    [][(batchRequest' # batchRequest /\ batchRequest'.status = 200 /\ batchRequest'.profileId # 0)
        => \A k \in DOMAIN batchRequest'.jobs :
              LET data == enqueued'[batchRequest'.jobs[k]]
                  first == \A j \in 1..(k - 1) : enqueued'[batchRequest'.jobs[j]].fileId # data.fileId
              IN  /\ first => data.settings = mcrFiles[data.fileId].humanizationSettings
                  /\ data.file.humanizationSettings = data.settings
                  /\ mcrFiles'[data.fileId].humanizationSettings = profiles[batchRequest'.profileId].body.settings]_vars

\* C24 (fails): in every state of the FileUpload component, pathCompleted
\* implies that the image now selected had a drawn path when it was selected
\* or is an image whose path save succeeded.
PathCompletedMeansSelectedImageHasPath ==
    pathCompleted => (selectedImageId # Null /\ (selectedHadPath \/ selectedImageId \in savedPaths))

\* The same of the upload request (fails as well): an upload is only issued
\* for an image that had a drawn path when selected or whose path save
\* succeeded.
UploadOnlyWithSavedPath ==
    [][uploadMutation' # uploadMutation /\ isUploading'
        => (selectedImageId # Null /\ (selectedHadPath \/ selectedImageId \in savedPaths))]_vars

\* What holds instead: pathCompleted implies that the selected image had a
\* drawn path when selected or that some path save succeeded, of this image
\* or of another.
PathCompletedMeansSomePathSaved ==
    pathCompleted => (selectedHadPath \/ savedPaths # {})

\* C25 (fails): no statement of an updateProfile call whose id matches no
\* profile changes the stored profiles, and the call returns null.
UnmatchedUpdateLeavesStore ==
    [][\A c \in CallSlots :
          (calls[c].op = "updateProfile" /\ calls[c].id \notin DOMAIN profiles)
             => /\ profiles' = profiles
                /\ (calls'[c].op = None => returned'.outcome = "null")]_vars

\* What holds instead: the call returns null, and it leaves the stored
\* profiles alone when its updates do not set isDefault = true.
UnmatchedPlainUpdateLeavesStore ==
    [][\A c \in CallSlots :
          (calls[c].op = "updateProfile" /\ calls[c].id \notin DOMAIN profiles)
             => /\ (calls[c].isDefault # "true" => profiles' = profiles)
                /\ (calls'[c].op = None => returned'.outcome = "null")]_vars

\* C26 (fails): for settings within the bounds of the schema,
\* adjustSettingsForTypingSpeed returns delayVariation in 1..100 and
\* hesitationPauses in 0..50, every other field as given, and leaves the
\* object it was given as it was.
AdjustedSettingsInBounds ==
    [][response'.op = "adjustSettingsForTypingSpeed"
        => /\ response'.settings.delayVariation \in 1..100
           /\ response'.settings.hesitationPauses \in 0..50
           /\ \A f \in DOMAIN request.settings \ {"delayVariation", "hesitationPauses"} :
                 response'.settings[f] = request.settings[f]
           /\ request' = request]_vars

\* What holds instead: the bounds are kept for medium and fast, and slow
\* gives up to 150 and 75; the other fields and the input are left alone.
AdjustedSettingsWithinHalfMore ==
    [][response'.op = "adjustSettingsForTypingSpeed"
        => /\ response'.settings.delayVariation \in 1..150
           /\ response'.settings.hesitationPauses \in 0..75
           /\ (request.typingSpeed # "slow"
                 => /\ response'.settings.delayVariation \in 1..100
                    /\ response'.settings.hesitationPauses \in 0..50)
           /\ \A f \in DOMAIN request.settings \ {"delayVariation", "hesitationPauses"} :
                 response'.settings[f] = request.settings[f]
           /\ request' = request]_vars

\* C27 (fails): after n >= 1 calls of recordPatternUsage for a pattern, s of
\* them with success = true, the row of the pattern has usageCount = n and
\* successRate = s / n.
UsageRateIsSuccessesOverCalls ==
    \A p \in PatternIds :
       CallsFor(p) # {}
          => LET row == patternUsage[ExistingUsage(p)]
             IN  /\ ExistingUsage(p) # 0
                 /\ row.usageCount = Cardinality(CallsFor(p))
                 /\ row.successRate.num * Cardinality(CallsFor(p))
                       = Cardinality(SuccessesFor(p)) * row.successRate.den

\* What holds instead: usageCount = n always, and successRate = s / n when
\* the first call for the pattern had success = true (the stored rate is
\* then never 0).
UsageRateAfterFirstSuccess ==
    \A p \in PatternIds :
       CallsFor(p) # {}
          => LET row == patternUsage[ExistingUsage(p)]
                 first == CHOOSE k \in CallsFor(p) : \A j \in CallsFor(p) : k <= j
             IN  /\ ExistingUsage(p) # 0
                 /\ row.usageCount = Cardinality(CallsFor(p))
                 /\ usageCalls[first].success
                       => row.successRate.num * Cardinality(CallsFor(p))
                            = Cardinality(SuccessesFor(p)) * row.successRate.den

\* C28 (fails): when the most recent analyzeImage call of an image returned
\* successfully, generateMCRFromImage for that image does not fail with
\* 'Image analysis not found or not completed'.
GenerateAfterSuccessfulAnalysis ==
    [][(/\ GenerateMCRFromImage
        /\ imageCall.op = "analyzeImage" /\ ~imageCall.raised
        /\ generated'.imageId = imageCall.imageId)
        => ~generated'.raised]_vars

\* What holds instead: after a successful analyzeImage the call fails only
\* when findFirst returned the row of an earlier, failed analysis, so it does
\* not fail while the image has no failed row.
GenerateFailsOnlyOnFailedRow ==
    [][(/\ GenerateMCRFromImage
        /\ imageCall.op = "analyzeImage" /\ ~imageCall.raised
        /\ generated'.imageId = imageCall.imageId
        /\ generated'.raised)
        => /\ generated'.read # 0
           /\ analyses[generated'.read].processingStatus = "failed"
           /\ \E k \in RowsOf(imageCall.imageId) : analyses[k].processingStatus = "completed"]_vars

\* The rows and the cache once analyzeImage has returned or thrown.
AnalysisSettled ==
    /\ \A k \in DOMAIN analyses : analyses[k].processingStatus \in {"completed", "failed"}
    /\ imageCall.op = "analyzeImage"
          => /\ imageCall.created # 0
                  => analyses[imageCall.created].processingStatus
                        = (IF imageCall.raised THEN "failed" ELSE "completed")
             /\ imageCall.cacheHit => (imageCall.created = 0 /\ ~imageCall.raised)
             /\ imageCall.cached => ~imageCall.raised
    /\ \A i \in ImageIds :
          store.data[ImageKey(i)] # Null
             => \E k \in RowsOf(i) : /\ analyses[k].processingStatus = "completed"
                                     /\ store.data[ImageKey(i)] = AnalysisJson(analyses[k])

JobStatusReportsThatJob ==
    [][GetJobStatus
        => (jobStatus'.exists
              => /\ ~jobStatus'.null
                 /\ jobStatus'.state = jobs[jobStatus'.queue][jobStatus'.jobId].state)]_vars

\* What holds instead: that is so for the ids returned by addProcessingJob;
\* for any id the answer is the state of the processing job with that id, and
\* null when there is none.
JobStatusReportsProcessingJob ==
    [][GetJobStatus
        => /\ (jobStatus'.exists /\ jobStatus'.queue = "mcr-processing")
                => /\ ~jobStatus'.null
                   /\ jobStatus'.state = jobs[jobStatus'.queue][jobStatus'.jobId].state
           /\ jobStatus'.null = (jobStatus'.jobId \notin DOMAIN jobs["mcr-processing"])
           /\ ~jobStatus'.null
                => jobStatus'.state = jobs["mcr-processing"][jobStatus'.jobId].state]_vars

====
